---- MODULE Spec2Model ----
(***************************************************************************)
(* The external merge sorts of eaburns.cmds.                               *)
(*                                                                         *)
(*   Spec       src/unnamed/part_003 (sort with the -n flag)               *)
(*   SpecCat    src/cat/main.go, the second program of the file            *)
(*   SpecSort1  src/sort/main.go, the first program of the file            *)
(*                                                                         *)
(* The three programs are specified over the same variables; each has its  *)
(* own initial predicate and its own actions.                              *)
(*                                                                         *)
(* Strings are sequences of byte codes; files are byte sequences.  Lines   *)
(* reach a file through a bufio.Writer and come back through              *)
(* bufio.Reader.ReadLine, both modelled on bytes, so that writing a chunk  *)
(* and reading it back is a computation and not the identity.              *)
(***************************************************************************)
EXTENDS Integers, Sequences, FiniteSets, TLC

(***************************************************************************)
(* Bounds of the model.  The programs' chunkSize (500000), mergeSize (10)  *)
(* and bufSize (8192) and bufio's default buffer size (4096) are scaled    *)
(* down so that spills, several merge rounds and overlong lines happen on  *)
(* inputs of a few lines.                                                  *)
(***************************************************************************)
chunkSize == 2
mergeSize == 2
defaultBufSize == 3
bufSize == 3
MaxLines == 5
MaxPaths == 2
MaxFaults == 1

\* byte codes
NL == 10
MinInt32 == 0 - 2147483647 - 1

\* The physical lines an input may hold (without the newline).  An input
\* draws all its lines from one family: "a", "1", "1a" (two of them share
\* the numeric key 1), or "b" and a line of "b"s that fills the default
\* read buffer.
LineFamilies ==
    { { <<97>>, <<49>>, <<49, 97>> },
      { <<98>>, [i \in 1..defaultBufSize |-> 98] } }

LineSet == UNION LineFamilies

(***************************************************************************)
(* State                                                                   *)
(***************************************************************************)
VARIABLES
    nflag,      \* the -n flag
    paths,      \* flag.Args(): "f" names a file, "-" standard input
    input,      \* the physical lines the reader has read so far, in order
    rd,         \* the goroutines that read the input
    ck,         \* the goroutine of chunks
    sent,       \* the lengths of the chunks handed to the merge stage
    ms,         \* the goroutine of mergeSort (part_003), or main
    fs,         \* the temporary files that exist: name -> bytes
    made,       \* number of temporary files created so far (names 1..made)
    removes,    \* the names passed to os.Remove, in order
    stdout,     \* bytes that reached standard output
    outbuf,     \* bytes held by the bufio.Writer on standard output
    stderr,     \* the messages main has printed
    detected,   \* the error conditions the stages have detected, in order
    errsClosed, \* close(errs) has run
    exit,       \* "running", or how the process ended
    status,     \* main's status; the exit status once exited
    nerrors,    \* the counter nerrors of sort/main.go
    faults      \* number of I/O failures injected so far

vars == <<nflag, paths, input, rd, ck, sent, ms, fs, made, removes, stdout,
          outbuf, stderr, detected, errsClosed, exit, status, nerrors, faults>>

(***************************************************************************)
(* Strings                                                                 *)
(***************************************************************************)
Min(a, b) == IF a < b THEN a ELSE b

Prefix(s, n) == SubSeq(s, 1, Min(n, Len(s)))

Drop(s, n) == SubSeq(s, n + 1, Len(s))

\* Go's a < b on strings: byte-wise lexicographic order.
RECURSIVE StrLess(_, _)
StrLess(a, b) ==
    IF b = <<>> THEN FALSE
    ELSE IF a = <<>> THEN TRUE
    ELSE IF a[1] # b[1] THEN a[1] < b[1]
    ELSE StrLess(Tail(a), Tail(b))

IsDigit(c) == c >= 48 /\ c <= 57

\* The value of the leading run of decimal digits of s, continuing acc;
\* sign is 1 or -1, so that the least value of the type is reached
\* without passing through its negation.
RECURSIVE ScanDigits(_, _, _)
ScanDigits(s, acc, sign) ==
    IF s = <<>> \/ ~IsDigit(s[1]) THEN acc
    ELSE ScanDigits(Tail(s), 10 * acc + sign * (s[1] - 48), sign)

\* fmt.Sscanf(s, "%d", &num): an optional sign and at least one digit.
\* ok is FALSE when no integer could be scanned.
Sscanf(s) ==
    LET signed == s # <<>> /\ s[1] \in {43, 45}
        body   == IF signed THEN Tail(s) ELSE s
    IN  IF body = <<>> \/ ~IsDigit(body[1])
        THEN [ok |-> FALSE, num |-> 0]
        ELSE [ok |-> TRUE,
              num |-> IF signed /\ s[1] = 45
                      THEN ScanDigits(body, 0, 0 - 1)
                      ELSE ScanDigits(body, 0, 1)]

makeLine(s) ==
    IF nflag
    THEN LET r == Sscanf(s)
         IN  [num |-> IF r.ok THEN r.num ELSE MinInt32, str |-> s]
    ELSE [num |-> 0, str |-> s]

less(a, b) ==
    IF nflag THEN a.num < b.num ELSE StrLess(a.str, b.str)

(***************************************************************************)
(* sort.Sort on a chunk.  For slices of fewer than 12 elements sort.Sort   *)
(* is an insertion sort driven by Less and Swap.                           *)
(***************************************************************************)
RECURSIVE Insert(_, _)
Insert(sorted, x) ==
    IF sorted = <<>> THEN <<x>>
    ELSE IF less(x, sorted[Len(sorted)])
         THEN Append(Insert(SubSeq(sorted, 1, Len(sorted) - 1), x),
                     sorted[Len(sorted)])
         ELSE Append(sorted, x)

RECURSIVE SortFrom(_, _)
SortFrom(done, rest) ==
    IF rest = <<>> THEN done
    ELSE SortFrom(Insert(done, rest[1]), Tail(rest))

sortChunk(c) == SortFrom(<<>>, c)

(***************************************************************************)
(* bufio                                                                   *)
(***************************************************************************)
\* The bytes of the lines as WriteString(l.str + "\n") emits them.
RECURSIVE Ser(_)
Ser(ls) ==
    IF ls = <<>> THEN <<>> ELSE ls[1] \o <<NL>> \o Ser(Tail(ls))

\* Position of the first newline among the first n bytes of s, 0 if none.
RECURSIVE FindNL(_, _, _)
FindNL(s, i, n) ==
    IF i > n \/ i > Len(s) THEN 0
    ELSE IF s[i] = NL THEN i
    ELSE FindNL(s, i + 1, n)

\* One call of bufio.Reader.ReadLine on the unread bytes s of a file, with
\* a buffer of B bytes: the line without its newline, or, when B bytes hold
\* no newline, those B bytes with prefix set.  rest is what stays unread.
ReadLine(s, B) ==
    LET i == FindNL(s, 1, B)
    IN  IF s = <<>> THEN [eof |-> TRUE, b |-> <<>>, prefix |-> FALSE, rest |-> <<>>]
        ELSE IF i > 0
        THEN [eof |-> FALSE, b |-> SubSeq(s, 1, i - 1), prefix |-> FALSE,
              rest |-> Drop(s, i)]
        ELSE IF Len(s) >= B
        THEN [eof |-> FALSE, b |-> SubSeq(s, 1, B), prefix |-> TRUE,
              rest |-> Drop(s, B)]
        ELSE [eof |-> FALSE, b |-> s, prefix |-> FALSE, rest |-> <<>>]

\* Bytes a bufio.Writer of B bytes has passed to its file once T bytes were
\* written to it and before Flush: it writes only when the buffer overflows.
AutoFlushed(T, B) == IF T = 0 THEN 0 ELSE B * ((T - 1) \div B)

\* The same when the wf-th write to the file fails (wf = 0: none fails).
Landed(T, B, wf) ==
    IF wf = 0 THEN T ELSE Min(T, (wf - 1) * B)

\* Whether the WriteString that takes the stream from T0 to T1 bytes
\* returns an error: it is the one that triggers the failing write.
WriteFails(T0, T1, B, wf) == wf >= 1 /\ T0 <= wf * B /\ wf * B < T1

(***************************************************************************)
(* container/heap over chunkHeap.  A heap is a sequence of chunkFiles      *)
(* [file, rest, cur]: the file's name, its unread bytes and its head line. *)
(***************************************************************************)
Swap(h, i, j) == [h EXCEPT ![i] = h[j], ![j] = h[i]]

heapLess(h, i, j) == less(h[i].cur, h[j].cur)

RECURSIVE up(_, _)
up(h, j) ==
    IF j = 1 \/ ~heapLess(h, j, j \div 2) THEN h
    ELSE up(Swap(h, j, j \div 2), j \div 2)

RECURSIVE down(_, _, _)
down(h, i, n) ==
    LET j1 == 2 * i
        j  == IF j1 + 1 <= n /\ heapLess(h, j1 + 1, j1) THEN j1 + 1 ELSE j1
    IN  IF j1 > n THEN h
        ELSE IF ~heapLess(h, j, i) THEN h
        ELSE down(Swap(h, i, j), j, n)

heapPush(h, x) == up(Append(h, x), Len(h) + 1)

\* heap.Pop: the minimum moves to the end, the rest is sifted, the end is cut.
heapPop(h) ==
    LET n == Len(h)
        g == down(Swap(h, 1, n), 1, n - 1)
    IN  [x |-> g[n], h |-> SubSeq(g, 1, n - 1)]

(***************************************************************************)
(* The temporary files                                                     *)
(***************************************************************************)
Exists(files, p) == p \in DOMAIN files

\* os.Remove(p): the file is gone afterwards; removing a missing file
\* fails, and every caller ignores that.
Remove(files, p) == [q \in (DOMAIN files) \ {p} |-> files[q]]

NoFault == [kind |-> "none", at |-> 0]

(***************************************************************************)
(* merge.  A merge state m holds the files, the heap q, the byte stream    *)
(* handed to the bufio.Writer so far (out), the count of ReadLine calls    *)
(* (nr), the names removed (rm), the names opened (op), the largest heap   *)
(* (hmax) and the error merge returns (err).  fault names the one I/O      *)
(* operation of this merge that fails: the at-th os.Open, the at-th        *)
(* ReadLine, or the at-th write of the bufio.Writer to its file.           *)
(***************************************************************************)
\* newChunkFile(p) within merge state m; r is what in.ReadLine() returns.
chunkFileOf(m, p, fault, r) ==
    IF fault.kind = "read" /\ fault.at = m.nr + 1
    THEN [m EXCEPT !.op = Append(@, p), !.nr = @ + 1, !.err = "read",
                   !.files = Remove(@, p), !.rm = Append(@, p)]
    ELSE IF r.eof
    THEN [m EXCEPT !.op = Append(@, p), !.nr = @ + 1, !.err = "EOF",
                   !.files = Remove(@, p), !.rm = Append(@, p)]
    ELSE [m EXCEPT !.op = Append(@, p), !.nr = @ + 1,
                   !.q = heapPush(@, [file |-> p, rest |-> r.rest,
                                      cur |-> makeLine(r.b)]),
                   !.hmax = IF Len(m.q) + 1 > @ THEN Len(m.q) + 1 ELSE @]

newChunkFile(m, p, fault) ==
    IF ~Exists(m.files, p) \/ (fault.kind = "open" /\ fault.at = Len(m.op) + 1)
    THEN [m EXCEPT !.op = Append(@, p), !.err = "open"]
    ELSE chunkFileOf(m, p, fault, ReadLine(m.files[p], defaultBufSize))

\* c.nextLine() for the chunkFile c just popped, within merge state m; r is
\* what c.in.ReadLine() returns.  err is "nil", "EOF" or "read"; on any
\* error the file has been removed.
nextLineOf(m, c, fault, r) ==
    IF fault.kind = "read" /\ fault.at = m.nr + 1
    THEN [m |-> [m EXCEPT !.nr = @ + 1, !.files = Remove(@, c.file),
                          !.rm = Append(@, c.file)],
          c |-> c, err |-> "read"]
    ELSE IF r.eof
    THEN [m |-> [m EXCEPT !.nr = @ + 1, !.files = Remove(@, c.file),
                          !.rm = Append(@, c.file)],
          c |-> c, err |-> "EOF"]
    ELSE [m |-> [m EXCEPT !.nr = @ + 1],
          c |-> [c EXCEPT !.rest = r.rest, !.cur = makeLine(r.b)],
          err |-> "nil"]

nextLine(m, c, fault) ==
    nextLineOf(m, c, fault, ReadLine(c.rest, defaultBufSize))

\* The first loop of merge: one chunkFile per path, stopping at an error.
RECURSIVE mergeOpen(_, _, _)

openNext(m1, ps, fault) ==
    IF m1.err # "nil" THEN m1 ELSE mergeOpen(m1, Tail(ps), fault)

mergeOpen(m, ps, fault) ==
    IF ps = <<>> THEN m
    ELSE openNext(newChunkFile(m, ps[1], fault), ps, fault)

\* The faulty write of a merge's bufio.Writer, 0 if none.
writeFault(fault) == IF fault.kind = "write" THEN fault.at ELSE 0

RECURSIVE mergeLoop(_, _)

\* After c.nextLine() returned n: push back, go on, or return the error.
afterNext(n, fault) ==
    IF n.err = "nil" THEN mergeLoop([n.m EXCEPT !.q = heapPush(@, n.c)], fault)
    ELSE IF n.err # "EOF" THEN [n.m EXCEPT !.err = n.err]
    ELSE mergeLoop(n.m, fault)

\* After heap.Pop returned p: write its line, then advance its file.
afterPop(m, p, fault) ==
    IF WriteFails(Len(m.out), Len(m.out) + Len(p.x.cur.str) + 1,
                  defaultBufSize, writeFault(fault))
    THEN [m EXCEPT !.q = p.h, !.out = @ \o p.x.cur.str \o <<NL>>,
                   !.err = "write"]
    ELSE afterNext(nextLine([m EXCEPT !.q = p.h,
                                      !.out = @ \o p.x.cur.str \o <<NL>>],
                            p.x, fault),
                   fault)

\* The second loop of merge: pop, write, advance, push back.
mergeLoop(m, fault) ==
    IF m.q = <<>> THEN m ELSE afterPop(m, heapPop(m.q), fault)

\* What merge leaves, from the state m its loops ended in.  landed is the
\* part of out that reached w, the deferred out.Flush() included (out is
\* empty when the first loop returned).  hit tells whether the fault
\* happened at all.
mergeResult(m, fault, n) ==
    [files |-> m.files, err |-> m.err, rm |-> m.rm, op |-> m.op,
     hmax |-> m.hmax, out |-> m.out, landed |-> Prefix(m.out, n),
     hit |-> CASE fault.kind = "open"  -> fault.at <= Len(m.op)
                                          /\ m.err = "open"
               [] fault.kind = "read"  -> fault.at <= m.nr
               [] fault.kind = "write" -> n < Len(m.out)
               [] OTHER -> TRUE]

mergeEnd(m, fault) ==
    mergeResult(m, fault, Landed(Len(m.out), defaultBufSize, writeFault(fault)))

mergeFrom(m1, fault) ==
    mergeEnd(IF m1.err # "nil" THEN m1 ELSE mergeLoop(m1, fault), fault)

\* merge(w, ps) on the files.
merge(files, ps, fault) ==
    mergeFrom(mergeOpen([files |-> files, q |-> <<>>, out |-> <<>>, nr |-> 0,
                         rm |-> <<>>, op |-> <<>>, hmax |-> 0, err |-> "nil"],
                        ps, fault),
              fault)

\* The faults a merge of n paths may be given.
MergeFaults(n) ==
    {NoFault}
    \cup { [kind |-> k, at |-> i] :
             k \in {"open", "read", "write"}, i \in 1..(MaxLines + n + 2) }

(***************************************************************************)
(* part_003: main, mergeSort, chunks, readAllLines and readLines.          *)
(* The channels lines, chunks and errs are unbuffered: a send and its      *)
(* receive are one step of the two goroutines together.                    *)
(***************************************************************************)
Running == exit = "running"

\* readAllLines: no argument means standard input.
Paths == IF paths = <<>> THEN <<"-">> ELSE paths

Strs(c) == [i \in 1..Len(c) |-> c[i].str]

Init ==
    /\ nflag \in BOOLEAN
    /\ paths \in UNION { [1..n -> {"f"}] : n \in 0..MaxPaths }
    /\ input = <<>>
    /\ rd = [pc |-> "open", i |-> 1, rest |-> <<>>, b |-> <<>>,
             prefix |-> FALSE, err |-> "nil"]
    /\ ck = [pc |-> "recv", c |-> <<>>]
    /\ sent = <<>>
    /\ ms = [pc |-> "range", c |-> <<>>, tmps |-> <<>>, flush |-> FALSE,
             owf |-> 0]
    /\ fs = <<>>
    /\ made = 0
    /\ removes = <<>>
    /\ stdout = <<>>
    /\ outbuf = <<>>
    /\ stderr = <<>>
    /\ detected = <<>>
    /\ errsClosed = FALSE
    /\ exit = "running"
    /\ status = 0
    /\ nerrors = 0
    /\ faults = 0

(***************************************************************************)
(* readAllLines and readLines                                              *)
(***************************************************************************)
\* os.Open(path) in readLines; standard input needs no open.
RdOpen ==
    /\ Running /\ rd.pc = "open" /\ rd.i <= Len(Paths)
    /\ \/ /\ rd' = [rd EXCEPT !.pc = "read", !.rest = <<>>]
          /\ UNCHANGED <<detected, faults>>
       \/ /\ Paths[rd.i] # "-" /\ faults < MaxFaults
          /\ rd' = [rd EXCEPT !.pc = "errs_open"]
          /\ detected' = Append(detected, "open")
          /\ faults' = faults + 1
    /\ UNCHANGED <<nflag, nerrors, paths, input, ck, sent, ms, fs, made,
                   removes, stdout, outbuf, stderr, errsClosed, exit, status>>

\* The fragment-skipping loop of readLines, "for prefix && err != nil":
\* r is the last ReadLine result, its rest the unread bytes of the line.
skipMore(r) == r.prefix /\ r.err # "nil"

RECURSIVE skipFragments(_)
skipFragments(r) ==
    IF ~skipMore(r) THEN r
    ELSE LET n == ReadLine(r.rest, defaultBufSize)
         IN  skipFragments([r EXCEPT !.rest = n.rest, !.prefix = n.prefix,
                                     !.err = IF n.eof THEN "EOF" ELSE "nil"])

\* What readLines does with the result r of in.ReadLine().
rdTake(r) ==
    /\ rd' = [rd EXCEPT !.b = r.b, !.rest = r.rest, !.prefix = r.prefix,
                        !.err = "nil",
                        !.pc = IF r.prefix THEN "errs_trunc" ELSE "sendline"]
    /\ detected' = IF r.prefix THEN Append(detected, "long") ELSE detected

\* in.ReadLine() at the top of the loop of readLines.  The file's next
\* physical line is drawn when the previous one is used up.
RdReadLine ==
    /\ Running /\ rd.pc = "read"
    /\ \/ \* the next physical line of the file
          /\ rd.rest = <<>> /\ Len(input) < MaxLines
          /\ \E l \in LineSet :
                /\ \E F \in LineFamilies :
                      \A i \in 1..(Len(input) + 1) : Append(input, l)[i] \in F
                /\ input' = Append(input, l)
                /\ rdTake(ReadLine(l \o <<NL>>, defaultBufSize))
          /\ UNCHANGED faults
       \/ \* the rest of a line that did not fit the buffer
          /\ rd.rest # <<>>
          /\ rdTake(ReadLine(rd.rest, defaultBufSize))
          /\ UNCHANGED <<input, faults>>
       \/ \* io.EOF: break, and readLines returns
          /\ rd.rest = <<>>
          /\ rd' = [rd EXCEPT !.pc = "open", !.i = @ + 1, !.err = "EOF"]
          /\ UNCHANGED <<input, detected, faults>>
       \/ \* a read error
          /\ rd.rest = <<>> /\ faults < MaxFaults
          /\ rd' = [rd EXCEPT !.pc = "errs_read", !.err = "read"]
          /\ detected' = Append(detected, "read")
          /\ faults' = faults + 1
          /\ UNCHANGED input
    /\ UNCHANGED <<nflag, nerrors, paths, ck, sent, ms, fs, made, removes,
                   stdout, outbuf, stderr, errsClosed, exit, status>>

\* errs <- err in readLines, received and printed by main.
RdSendErr ==
    /\ Running /\ ~errsClosed
    /\ rd.pc \in {"errs_open", "errs_trunc", "errs_read"}
    /\ stderr' = Append(stderr, CASE rd.pc = "errs_open"  -> "open"
                                  [] rd.pc = "errs_trunc" -> "long"
                                  [] OTHER -> "read")
    /\ status' = 1
    /\ rd' = CASE rd.pc = "errs_open" -> [rd EXCEPT !.pc = "open", !.i = @ + 1]
               [] rd.pc = "errs_read" -> [rd EXCEPT !.pc = "open", !.i = @ + 1]
               [] OTHER ->
                    LET r == skipFragments(rd)
                    IN  IF r.err # "nil"
                        THEN [r EXCEPT !.pc = "open", !.i = @ + 1]
                        ELSE [r EXCEPT !.pc = "sendline"]
    /\ UNCHANGED <<nflag, nerrors, paths, input, ck, sent, ms, fs, made,
                   removes, stdout, outbuf, detected, errsClosed, exit,
                   faults>>

\* errs <- err after mergeSort closed errs: the send panics.
RdPanic ==
    /\ Running /\ errsClosed
    /\ rd.pc \in {"errs_open", "errs_trunc", "errs_read"}
    /\ exit' = "panic"
    /\ UNCHANGED <<nflag, nerrors, paths, input, rd, ck, sent, ms, fs, made,
                   removes, stdout, outbuf, stderr, detected, errsClosed,
                   status, faults>>

\* close(ch) in readAllLines.
RdClose ==
    /\ Running /\ rd.pc = "open" /\ rd.i > Len(Paths)
    /\ rd' = [rd EXCEPT !.pc = "done"]
    /\ UNCHANGED <<nflag, nerrors, paths, input, ck, sent, ms, fs, made,
                   removes, stdout, outbuf, stderr, detected, errsClosed,
                   exit, status, faults>>

(***************************************************************************)
(* chunks                                                                  *)
(***************************************************************************)
\* A chunks that does not wait in its send: it goes on receiving lines
\* into the chunk it has not handed off yet.
CkRecvEager ==
    /\ Running /\ rd.pc = "sendline" /\ ck.pc \in {"recv", "send"}
    /\ LET c == Append(ck.c, makeLine(rd.b))
       IN  ck' = IF Len(c) >= chunkSize
                 THEN [pc |-> "send", c |-> sortChunk(c)]
                 ELSE [pc |-> "recv", c |-> c]
    /\ rd' = [rd EXCEPT !.pc = "read"]
    /\ UNCHANGED <<nflag, nerrors, paths, input, sent, ms, fs, made, removes,
                   stdout, outbuf, stderr, detected, errsClosed, exit, status,
                   faults>>

\* A chunks that tested the length of the chunk before appending the
\* line, and so sent chunks of chunkSize + 1 lines.
CkRecvLate ==
    /\ Running /\ rd.pc = "sendline" /\ ck.pc = "recv"
    /\ LET c == Append(ck.c, makeLine(rd.b))
       IN  ck' = IF Len(ck.c) = chunkSize
                 THEN [pc |-> "send", c |-> sortChunk(c)]
                 ELSE [pc |-> "recv", c |-> c]
    /\ rd' = [rd EXCEPT !.pc = "read"]
    /\ UNCHANGED <<nflag, nerrors, paths, input, sent, ms, fs, made, removes,
                   stdout, outbuf, stderr, detected, errsClosed, exit, status,
                   faults>>

\* lines <- string(bytes) in readLines, received by the loop of chunks.
CkRecv ==
    /\ Running /\ rd.pc = "sendline" /\ ck.pc = "recv"
    /\ LET c == Append(ck.c, makeLine(rd.b))
       IN  ck' = IF Len(c) = chunkSize
                 THEN [pc |-> "send", c |-> sortChunk(c)]
                 ELSE [pc |-> "recv", c |-> c]
    /\ rd' = [rd EXCEPT !.pc = "read"]
    /\ UNCHANGED <<nflag, nerrors, paths, input, sent, ms, fs, made, removes,
                   stdout, outbuf, stderr, detected, errsClosed, exit, status,
                   faults>>

\* The range over lines ends: the last, partial chunk is sorted.
CkLast ==
    /\ Running /\ rd.pc = "done" /\ ck.pc = "recv"
    /\ ck' = IF Len(ck.c) > 0
             THEN [pc |-> "sendlast", c |-> sortChunk(ck.c)]
             ELSE [pc |-> "close", c |-> <<>>]
    /\ UNCHANGED <<nflag, nerrors, paths, input, rd, sent, ms, fs, made,
                   removes, stdout, outbuf, stderr, detected, errsClosed,
                   exit, status, faults>>

\* ch <- c in chunks, received by the range of mergeSort.
CkSend ==
    /\ Running /\ ck.pc \in {"send", "sendlast"} /\ ms.pc = "range"
    /\ ms' = [ms EXCEPT !.pc = "chunk", !.c = ck.c]
    /\ ck' = IF ck.pc = "send" THEN [pc |-> "recv", c |-> <<>>]
             ELSE [pc |-> "close", c |-> <<>>]
    /\ sent' = Append(sent, Len(ck.c))
    /\ UNCHANGED <<nflag, nerrors, paths, input, rd, fs, made, removes,
                   stdout, outbuf, stderr, detected, errsClosed, exit, status,
                   faults>>

\* close(ch) in chunks.
CkClose ==
    /\ Running /\ ck.pc = "close"
    /\ ck' = [ck EXCEPT !.pc = "done"]
    /\ UNCHANGED <<nflag, nerrors, paths, input, rd, sent, ms, fs, made,
                   removes, stdout, outbuf, stderr, detected, errsClosed,
                   exit, status, faults>>

(***************************************************************************)
(* mergeSort                                                               *)
(***************************************************************************)
\* The faults of a bufio.Writer that is handed T bytes: which of its
\* writes to the file fails (0: none), the one of Flush included.
WriteFaults(T) ==
    {0} \cup (IF faults < MaxFaults
              THEN 1..(AutoFlushed(T, defaultBufSize) \div defaultBufSize + 1)
              ELSE {})

\* "len(c) < chunkSize && len(tmps) == 0": the chunk is the only one.
directToStdoutStrict(c, tmps) == Len(c) < chunkSize - 1 /\ Len(tmps) = 0
directToStdout(c, tmps) == Len(c) < chunkSize /\ Len(tmps) = 0

\* The body of the range over chunks, first branch: the only chunk is
\* short and goes to standard output through a bufio.Writer whose Flush is
\* deferred; WriteString's errors are not looked at.
MsDirect ==
    /\ Running /\ ms.pc = "chunk"
    /\ directToStdout(ms.c, ms.tmps)
    /\ LET stream == Ser(Strs(ms.c))
           T      == Len(stream)
       IN  \E wf \in WriteFaults(T) :
             LET n == Min(AutoFlushed(T, defaultBufSize),
                          Landed(T, defaultBufSize, wf))
             IN  /\ stdout' = stdout \o Prefix(stream, n)
                 /\ outbuf' = Drop(stream, n)
                 /\ ms' = [ms EXCEPT !.pc = "out", !.flush = TRUE, !.owf = wf]
                 /\ faults' = IF wf > 0 THEN faults + 1 ELSE faults
    /\ UNCHANGED <<nflag, nerrors, paths, input, rd, ck, sent, fs, made,
                   removes, stderr, detected, errsClosed, exit, status>>

\* writeChunk(c) and what the range does with its result.
MsWriteChunk ==
    /\ Running /\ ms.pc = "chunk"
    /\ ~directToStdout(ms.c, ms.tmps)
    /\ \/ \* ioutil.TempFile fails
          /\ faults < MaxFaults
          /\ faults' = faults + 1
          /\ detected' = Append(detected, "tmp")
          /\ ms' = [ms EXCEPT !.pc = "errs_chunk"]
          /\ UNCHANGED <<fs, made, removes>>
       \/ LET f      == made + 1
              stream == Ser(Strs(ms.c))
              T      == Len(stream)
          IN  \E wf \in WriteFaults(T) :
                /\ made' = f
                /\ faults' = IF wf > 0 THEN faults + 1 ELSE faults
                /\ IF wf > 0 /\ wf * defaultBufSize < T
                   THEN \* some WriteString fails: the file is removed
                        /\ fs' = fs
                        /\ removes' = Append(removes, f)
                        /\ detected' = Append(detected, "write")
                        /\ ms' = [ms EXCEPT !.pc = "errs_chunk"]
                   ELSE \* no WriteString fails; the deferred Flush may
                        /\ fs' = (f :> Prefix(stream,
                                     Landed(T, defaultBufSize, wf))) @@ fs
                        /\ ms' = [ms EXCEPT !.pc = "range",
                                            !.tmps = Append(@, f)]
                        /\ UNCHANGED <<removes, detected>>
    /\ UNCHANGED <<nflag, nerrors, paths, input, rd, ck, sent, stdout, outbuf,
                   stderr, errsClosed, exit, status>>

\* The range over chunks ends: chunks closed its channel.
MsRangeEnd ==
    /\ Running /\ ms.pc = "range" /\ ck.pc = "done"
    /\ ms' = [ms EXCEPT !.pc = "loop"]
    /\ UNCHANGED <<nflag, nerrors, paths, input, rd, ck, sent, fs, made,
                   removes, stdout, outbuf, stderr, detected, errsClosed,
                   exit, status, faults>>

\* A mergeSort whose round kept the names of the files it merged in tmps.
MsRoundKeep ==
    /\ Running /\ ms.pc = "loop" /\ Len(ms.tmps) > mergeSize
    /\ \/ \* ioutil.TempFile fails: break
          /\ faults < MaxFaults
          /\ faults' = faults + 1
          /\ detected' = Append(detected, "tmp")
          /\ ms' = [ms EXCEPT !.pc = "errs_loop"]
          /\ UNCHANGED <<fs, made, removes>>
       \/ LET f == made + 1
          IN  \E fault \in MergeFaults(mergeSize) :
                LET r == merge((f :> <<>>) @@ fs,
                               SubSeq(ms.tmps, 1, mergeSize), fault)
                IN  /\ fault.kind # "none" => faults < MaxFaults /\ r.hit
                    /\ faults' = IF fault.kind # "none" THEN faults + 1
                                 ELSE faults
                    /\ made' = f
                    /\ fs' = [r.files EXCEPT ![f] = r.landed]
                    /\ removes' = removes \o r.rm
                    /\ detected' = IF r.err # "nil"
                                   THEN Append(detected, "merge") ELSE detected
                    /\ ms' = [ms EXCEPT
                                !.tmps = Append(@, f),
                                !.pc = IF r.err # "nil" THEN "errs_loop"
                                       ELSE "loop"]
    /\ UNCHANGED <<nflag, nerrors, paths, input, rd, ck, sent, stdout, outbuf,
                   stderr, errsClosed, exit, status>>

\* One round of "for len(tmps) > mergeSize".
MsRound ==
    /\ Running /\ ms.pc = "loop" /\ Len(ms.tmps) > mergeSize
    /\ \/ \* ioutil.TempFile fails: break
          /\ faults < MaxFaults
          /\ faults' = faults + 1
          /\ detected' = Append(detected, "tmp")
          /\ ms' = [ms EXCEPT !.pc = "errs_loop"]
          /\ UNCHANGED <<fs, made, removes>>
       \/ LET f == made + 1
          IN  \E fault \in MergeFaults(mergeSize) :
                LET r == merge((f :> <<>>) @@ fs,
                               SubSeq(ms.tmps, 1, mergeSize), fault)
                IN  /\ fault.kind # "none" => faults < MaxFaults /\ r.hit
                    /\ faults' = IF fault.kind # "none" THEN faults + 1
                                 ELSE faults
                    /\ made' = f
                    /\ fs' = [r.files EXCEPT ![f] = r.landed]
                    /\ removes' = removes \o r.rm
                    /\ detected' = IF r.err # "nil"
                                   THEN Append(detected, "merge") ELSE detected
                    /\ ms' = [ms EXCEPT
                                !.tmps = Append(Drop(@, mergeSize), f),
                                !.pc = IF r.err # "nil" THEN "errs_loop"
                                       ELSE "loop"]
    /\ UNCHANGED <<nflag, nerrors, paths, input, rd, ck, sent, stdout, outbuf,
                   stderr, errsClosed, exit, status>>

\* The loop condition fails: at most mergeSize names are left.
MsLoopEnd ==
    /\ Running /\ ms.pc = "loop" /\ Len(ms.tmps) <= mergeSize
    /\ ms' = [ms EXCEPT !.pc = "final"]
    /\ UNCHANGED <<nflag, nerrors, paths, input, rd, ck, sent, fs, made,
                   removes, stdout, outbuf, stderr, detected, errsClosed,
                   exit, status, faults>>

\* "if len(tmps) > 0 { merge(os.Stdout, tmps) }".
MsFinal ==
    /\ Running /\ ms.pc = "final"
    /\ IF Len(ms.tmps) = 0
       THEN /\ ms' = [ms EXCEPT !.pc = "out"]
            /\ UNCHANGED <<fs, removes, stdout, detected, faults>>
       ELSE \E fault \in MergeFaults(Len(ms.tmps)) :
              LET r == merge(fs, ms.tmps, fault)
              IN  /\ fault.kind # "none" => faults < MaxFaults /\ r.hit
                  /\ faults' = IF fault.kind # "none" THEN faults + 1
                               ELSE faults
                  /\ fs' = r.files
                  /\ removes' = removes \o r.rm
                  /\ stdout' = stdout \o r.landed
                  /\ detected' = IF r.err # "nil"
                                 THEN Append(detected, "merge") ELSE detected
                  /\ ms' = [ms EXCEPT !.pc = IF r.err # "nil"
                                             THEN "errs_final" ELSE "out"]
    /\ UNCHANGED <<nflag, nerrors, paths, input, rd, ck, sent, made, outbuf,
                   stderr, errsClosed, exit, status>>

\* A mergeSort that, after reporting an error of a merge round, tried the
\* round again instead of leaving the loop.
MsSendErrRetry ==
    /\ Running /\ ~errsClosed
    /\ ms.pc \in {"errs_chunk", "errs_loop", "errs_final"}
    /\ stderr' = Append(stderr, "mergeSort")
    /\ status' = 1
    /\ ms' = [ms EXCEPT !.pc = IF ms.pc = "errs_loop" THEN "loop" ELSE "out"]
    /\ UNCHANGED <<nflag, nerrors, paths, input, rd, ck, sent, fs, made,
                   removes, stdout, outbuf, detected, errsClosed, exit,
                   faults>>

\* errs <- err in mergeSort, received and printed by main.
MsSendErr ==
    /\ Running /\ ~errsClosed
    /\ ms.pc \in {"errs_chunk", "errs_loop", "errs_final"}
    /\ stderr' = Append(stderr, "mergeSort")
    /\ status' = 1
    /\ ms' = [ms EXCEPT !.pc = IF ms.pc = "errs_loop" THEN "final" ELSE "out"]
    /\ UNCHANGED <<nflag, nerrors, paths, input, rd, ck, sent, fs, made,
                   removes, stdout, outbuf, detected, errsClosed, exit,
                   faults>>

RECURSIVE RemoveAll(_, _)
RemoveAll(files, ps) ==
    IF ps = <<>> THEN files ELSE RemoveAll(Remove(files, ps[1]), Tail(ps))

\* The label out: every name of tmps is removed and errs is closed.
MsOut ==
    /\ Running /\ ms.pc = "out"
    /\ fs' = RemoveAll(fs, ms.tmps)
    /\ removes' = removes \o ms.tmps
    /\ errsClosed' = TRUE
    /\ ms' = [ms EXCEPT !.pc = "closed"]
    /\ UNCHANGED <<nflag, nerrors, paths, input, rd, ck, sent, made, stdout,
                   outbuf, stderr, detected, exit, status, faults>>

\* mergeSort returns: the deferred out.Flush() runs, after close(errs).
MsReturn ==
    /\ Running /\ ms.pc = "closed"
    /\ ms' = [ms EXCEPT !.pc = "done"]
    /\ stdout' = IF ~ms.flush THEN stdout
                  ELSE Prefix(stdout \o outbuf,
                              Landed(Len(stdout) + Len(outbuf),
                                     defaultBufSize, ms.owf))
    /\ outbuf' = <<>>
    /\ UNCHANGED <<nflag, nerrors, paths, input, rd, ck, sent, fs, made,
                   removes, stderr, detected, errsClosed, exit, status,
                   faults>>

(***************************************************************************)
(* main                                                                    *)
(***************************************************************************)
\* The range over errs ends once errs is closed: os.Exit(status).
MainExit ==
    /\ Running /\ errsClosed
    /\ exit' = "exited"
    /\ UNCHANGED <<nflag, nerrors, paths, input, rd, ck, sent, ms, fs, made,
                   removes, stdout, outbuf, stderr, detected, errsClosed,
                   status, faults>>

Next ==
    \/ RdOpen \/ RdReadLine \/ RdSendErr \/ RdPanic \/ RdClose
    \/ CkRecv \/ CkLast \/ CkSend \/ CkClose
    \/ MsDirect \/ MsWriteChunk \/ MsRangeEnd \/ MsRound \/ MsLoopEnd
    \/ MsFinal \/ MsSendErr \/ MsOut \/ MsReturn
    \/ MainExit

Spec == Init /\ [][Next]_vars

(***************************************************************************)
(* Properties of part_003                                                  *)
(***************************************************************************)
\* The complete lines of a byte sequence, without their newlines.
RECURSIVE SplitFrom(_, _)
SplitFrom(s, cur) ==
    IF s = <<>> THEN <<>>
    ELSE IF s[1] = NL THEN <<cur>> \o SplitFrom(Tail(s), <<>>)
    ELSE SplitFrom(Tail(s), Append(cur, s[1]))

SplitLines(s) == SplitFrom(s, <<>>)

\* ls is non-decreasing under line.less.
NonDecreasing(ls) ==
    \A i \in 1..(Len(ls) - 1) : ~less(makeLine(ls[i + 1]), makeLine(ls[i]))

Overlong(l) == Len(l) >= defaultBufSize

NoOverlong == \A i \in 1..Len(input) : ~Overlong(input[i])

\* C1: the lines on standard output are non-decreasing under line.less,
\* at every moment of every run.
C1_OutputSorted == NonDecreasing(SplitLines(stdout))

\* What sorting the whole input as one chunk in memory gives.
InMemory == Strs(sortChunk([i \in 1..Len(input) |-> makeLine(input[i])]))

Count(ls, x) == Cardinality({i \in 1..Len(ls) : ls[i] = x})

SameLines(a, b) ==
    /\ Len(a) = Len(b)
    /\ \A i \in 1..Len(a) : Count(a, a[i]) = Count(b, a[i])

\* mergeSort has returned, deferred calls included, and no I/O failed.
CleanRun == ms.pc = "done" /\ faults = 0

\* C2: without overlong lines and I/O failures the output is what an
\* in-memory sort of the input gives, for spilled runs too.
C2_SameAsInMemory ==
    (CleanRun /\ NoOverlong) => SplitLines(stdout) = InMemory

\* The output is a permutation of the input lines.
T2_Permutation ==
    (CleanRun /\ NoOverlong) => SameLines(SplitLines(stdout), input)

T1_SortedClean ==
    (CleanRun /\ NoOverlong) => NonDecreasing(SplitLines(stdout))

\* C3: once mergeSort has closed errs, no temporary file exists.
C3_NoTempFileLeft == errsClosed => DOMAIN fs = {}


\* C5: when main has called os.Exit, nothing that mergeSort wrote is
\* still held in the buffer of its bufio.Writer: every sorted line has
\* reached standard output.
C5_FlushedBeforeExit == exit = "exited" => outbuf = <<>>

\* C8: when the process is over, every error that a stage detected has
\* been received from errs and printed, and the status is 1 if there
\* was one.
C8_EveryErrorPrinted ==
    exit # "running" =>
        /\ Len(stderr) = Len(detected)
        /\ (detected # <<>> => status = 1)

\* The whole input made exactly one chunk, and mergeSort is past it.
OneChunk == ck.pc = "done" /\ Len(sent) = 1 /\ ms.pc \notin {"range", "chunk"}

RECURSIVE SumSeq(_)
SumSeq(q) == IF q = <<>> THEN 0 ELSE Head(q) + SumSeq(Tail(q))

\* The number of Lines that readLines has handed to chunks so far.
Delivered ==
    SumSeq(sent) + (IF ck.pc \in {"recv", "send", "sendlast"}
                    THEN Len(ck.c) ELSE 0)

\* C10: readLines hands over at most one Line for each physical line of
\* the input: the fragments that follow the first part of an overlong
\* line are discarded.
C10_FragmentsDiscarded == Delivered <= Len(input)


(***************************************************************************)
(* The second program of cat/main.go: the same sort built from goroutines  *)
(* lines -> allLines -> chunks -> main, with mergeSort called by main.     *)
(* It uses the variables above: rd holds the goroutines of lines and of    *)
(* allLines, ck the one of chunks, ms the position of main; nflag,         *)
(* outbuf and errsClosed do not change.                                    *)
(***************************************************************************)
\* less of cat/main.go and sort/main.go: a < b on strings.
strLess(a, b) == StrLess(a, b)

\* sort.Sort on a chunk of strings.
RECURSIVE strInsert(_, _)
strInsert(sorted, x) ==
    IF sorted = <<>> THEN <<x>>
    ELSE IF strLess(x, sorted[Len(sorted)])
    THEN Append(strInsert(SubSeq(sorted, 1, Len(sorted) - 1), x),
                sorted[Len(sorted)])
    ELSE Append(sorted, x)

RECURSIVE strSortFrom(_, _)
strSortFrom(done, rest) ==
    IF rest = <<>> THEN done
    ELSE strSortFrom(strInsert(done, rest[1]), Tail(rest))

sortStrings(c) == strSortFrom(<<>>, c)

(***************************************************************************)
(* bufio.Writer under Write, as fmt.Fprintln calls it.  A writer is        *)
(* [buf, landed, nw, err]: the bytes it holds, the bytes it passed to its  *)
(* file, the writes to the file it made, and whether one failed (the       *)
(* error is sticky).  wf names the write to the file that fails, 0 for     *)
(* none; a failed write passes nothing.                                    *)
(***************************************************************************)
NewWriterSize == [buf |-> 0, landed |-> 0, nw |-> 0, err |-> FALSE]

bwFlush(w, wf) ==
    IF w.err \/ w.buf = 0 THEN w
    ELSE IF w.nw + 1 = wf THEN [w EXCEPT !.nw = @ + 1, !.err = TRUE]
    ELSE [w EXCEPT !.nw = @ + 1, !.landed = @ + w.buf, !.buf = 0]

\* Write(p) with len(p) = n: while p does not fit, an empty buffer is
\* bypassed and a used one is filled and flushed.
RECURSIVE bwWrite(_, _, _)
bwWrite(w, n, wf) ==
    IF n > bufSize - w.buf /\ ~w.err
    THEN IF w.buf = 0
         THEN IF w.nw + 1 = wf
              THEN [w EXCEPT !.nw = @ + 1, !.err = TRUE]
              ELSE bwWrite([w EXCEPT !.nw = @ + 1, !.landed = @ + n], 0, wf)
         ELSE bwWrite(bwFlush([w EXCEPT !.buf = bufSize], wf),
                      n - (bufSize - w.buf), wf)
    ELSE IF w.err THEN w
    ELSE [w EXCEPT !.buf = @ + n]

\* The loop of writeChunk: it returns at the first Fprintln that fails.
RECURSIVE cat_writeLoop(_, _, _)

cat_writeRest(w1, c, wf) ==
    IF w1.err THEN w1 ELSE cat_writeLoop(w1, Tail(c), wf)

cat_writeLoop(w, c, wf) ==
    IF c = <<>> THEN w
    ELSE cat_writeRest(bwWrite(w, Len(c[1]) + 1, wf), c, wf)

\* writeChunk from the writer w its loop ended with: err is what it
\* returns, landed what reached the file after the deferred Flush, whose
\* error is dropped; hit tells whether the fault happened.
cat_writeChunkEnd(w, wf) ==
    [err |-> w.err, landed |-> bwFlush(w, wf).landed,
     hit |-> wf = 0 \/ bwFlush(w, wf).err]

cat_writeChunk(c, wf) ==
    cat_writeChunkEnd(cat_writeLoop(NewWriterSize, c, wf), wf)

(***************************************************************************)
(* container/heap over entries ordered by their line: mergeHeap of         *)
(* cat/main.go.  An entry is [file, rest, line].                           *)
(***************************************************************************)
lineLess(h, i, j) == strLess(h[i].line, h[j].line)

RECURSIVE lineUp(_, _)
lineUp(h, j) ==
    IF j = 1 \/ ~lineLess(h, j, j \div 2) THEN h
    ELSE lineUp(Swap(h, j, j \div 2), j \div 2)

RECURSIVE lineDown(_, _, _)
lineDown(h, i, n) ==
    LET j1 == 2 * i
        j  == IF j1 + 1 <= n /\ lineLess(h, j1 + 1, j1) THEN j1 + 1 ELSE j1
    IN  IF j1 > n THEN h
        ELSE IF ~lineLess(h, j, i) THEN h
        ELSE lineDown(Swap(h, i, j), j, n)

linePush(h, x) == lineUp(Append(h, x), Len(h) + 1)

linePop(h) ==
    LET n == Len(h)
        g == lineDown(Swap(h, 1, n), 1, n - 1)
    IN  [x |-> g[n], h |-> SubSeq(g, 1, n - 1)]

(***************************************************************************)
(* merge of cat/main.go.  A merge state m holds the files, the heap q,     *)
(* the bufio.Writer w, the bytes written to it (out), the count of         *)
(* ReadLine calls (nr), the names removed (rm) and opened (op), the        *)
(* largest heap (hmax) and the error merge returns (err).  The goroutine   *)
(* of lines that feeds an entry reads only the entry's own file, so what   *)
(* next() receives is what ReadLine returns at that point of the file.     *)
(***************************************************************************)
\* h.next() for entry e, r being what the goroutine's ReadLine returns: a
\* closed channel or an error item removes the file.
cat_nextOf(m, e, fault, r) ==
    IF fault.kind = "read" /\ fault.at = m.nr + 1
    THEN [m |-> [m EXCEPT !.nr = @ + 1, !.files = Remove(@, e.file),
                          !.rm = Append(@, e.file)],
          e |-> e, ok |-> FALSE, err |-> "read"]
    ELSE IF r.eof
    THEN [m |-> [m EXCEPT !.nr = @ + 1, !.files = Remove(@, e.file),
                          !.rm = Append(@, e.file)],
          e |-> e, ok |-> FALSE, err |-> "nil"]
    ELSE IF r.prefix
    THEN [m |-> [m EXCEPT !.nr = @ + 1, !.files = Remove(@, e.file),
                          !.rm = Append(@, e.file)],
          e |-> e, ok |-> FALSE, err |-> "long"]
    ELSE [m |-> [m EXCEPT !.nr = @ + 1],
          e |-> [e EXCEPT !.rest = r.rest, !.line = r.b],
          ok |-> TRUE, err |-> "nil"]

cat_next(m, e, fault) == cat_nextOf(m, e, fault, ReadLine(e.rest, bufSize))

newHeapEntry(m, p, fault) ==
    IF ~Exists(m.files, p) \/ (fault.kind = "open" /\ fault.at = Len(m.op) + 1)
    THEN [m |-> [m EXCEPT !.op = Append(@, p)],
          e |-> [file |-> p, rest |-> <<>>, line |-> <<>>],
          ok |-> FALSE, err |-> "open"]
    ELSE cat_next([m EXCEPT !.op = Append(@, p)],
                  [file |-> p, rest |-> m.files[p], line |-> <<>>], fault)

\* heap.Push(&q, ent) within m.
cat_push(m, e) ==
    [m EXCEPT !.q = linePush(@, e),
              !.hmax = IF Len(m.q) + 1 > @ THEN Len(m.q) + 1 ELSE @]

\* The first loop of merge.
RECURSIVE cat_mergeOpen(_, _, _)

cat_openNext(n, ps, fault) ==
    IF n.err # "nil" THEN [n.m EXCEPT !.err = n.err]
    ELSE IF n.ok THEN cat_mergeOpen(cat_push(n.m, n.e), Tail(ps), fault)
    ELSE cat_mergeOpen(n.m, Tail(ps), fault)

cat_mergeOpen(m, ps, fault) ==
    IF ps = <<>> THEN m
    ELSE cat_openNext(newHeapEntry(m, ps[1], fault), ps, fault)

\* fmt.Fprintln(out, line) within m.
cat_Fprintln(m, line, fault) ==
    [m EXCEPT !.w = bwWrite(@, Len(line) + 1, writeFault(fault)),
              !.out = @ \o line \o <<NL>>]

RECURSIVE cat_mergeLoop(_, _)

cat_afterWrite(m, fault) ==
    IF m.w.err THEN [m EXCEPT !.err = "write"] ELSE cat_mergeLoop(m, fault)

\* After ent.next() returned n for the entry whose line was taken.
cat_afterNext(n, line, fault) ==
    IF n.err # "nil" THEN [n.m EXCEPT !.err = n.err]
    ELSE cat_afterWrite(cat_Fprintln(IF n.ok THEN cat_push(n.m, n.e) ELSE n.m,
                                     line, fault),
                        fault)

cat_afterPop(m, p, fault) ==
    cat_afterNext(cat_next([m EXCEPT !.q = p.h], p.x, fault), p.x.line, fault)

\* The second loop of merge: pop, advance, push back, write.
cat_mergeLoop(m, fault) ==
    IF m.q = <<>> THEN m ELSE cat_afterPop(m, linePop(m.q), fault)

\* What merge leaves, w being the writer after the deferred out.Flush().
cat_mergeResult(m, fault, w) ==
    [files |-> m.files, err |-> m.err, rm |-> m.rm, op |-> m.op,
     hmax |-> m.hmax, out |-> m.out, landed |-> Prefix(m.out, w.landed),
     hit |-> CASE fault.kind = "open"  -> fault.at <= Len(m.op)
                                          /\ m.err = "open"
               [] fault.kind = "read"  -> fault.at <= m.nr
               [] fault.kind = "write" -> w.err
               [] OTHER -> TRUE]

cat_mergeEnd(m, fault) ==
    cat_mergeResult(m, fault, bwFlush(m.w, writeFault(fault)))

cat_mergeFrom(m1, fault) ==
    cat_mergeEnd(IF m1.err # "nil" THEN m1 ELSE cat_mergeLoop(m1, fault), fault)

\* merge(w, ps) on the files.
cat_merge(files, ps, fault) ==
    cat_mergeFrom(cat_mergeOpen([files |-> files, q |-> <<>>,
                                 w |-> NewWriterSize, out |-> <<>>, nr |-> 0,
                                 rm |-> <<>>, op |-> <<>>, hmax |-> 0,
                                 err |-> "nil"],
                                ps, fault),
                  fault)

(***************************************************************************)
(* cat/main.go, second program: the goroutines.  rd is                     *)
(* [pc, apc, i, rest, b, prefix, err, item]: pc is the position of the     *)
(* goroutine of lines for path i, apc the one of allLines, item what       *)
(* allLines holds between its receive and its send.  An item is a strErr:  *)
(* [err, str], err being "nil" for a line.                                 *)
(***************************************************************************)
StrItem(s) == [err |-> "nil", str |-> s]
ErrItem(e) == [err |-> e, str |-> <<>>]

CatInit ==
    /\ nflag = FALSE
    /\ paths \in UNION { [1..n -> {"f"}] : n \in 0..MaxPaths }
    /\ input = <<>>
    /\ rd = [pc |-> "off", apc |-> "open", i |-> 1, rest |-> <<>>,
             b |-> <<>>, prefix |-> FALSE, err |-> "nil",
             item |-> StrItem(<<>>)]
    /\ ck = [pc |-> "recv", c |-> <<>>, err |-> "nil"]
    /\ sent = <<>>
    /\ ms = [pc |-> "range", c |-> <<>>, stored |-> <<>>]
    /\ fs = <<>>
    /\ made = 0
    /\ removes = <<>>
    /\ stdout = <<>>
    /\ outbuf = <<>>
    /\ stderr = <<>>
    /\ detected = <<>>
    /\ errsClosed = FALSE
    /\ exit = "running"
    /\ status = 0
    /\ nerrors = 0
    /\ faults = 0

\* allLines at the top of its range over paths: standard input, or
\* os.Open(p), which may fail; then lines(...) starts its goroutine.
CatOpen ==
    /\ Running /\ rd.apc = "open" /\ rd.i <= Len(Paths)
    /\ \/ /\ rd' = [rd EXCEPT !.apc = "range", !.pc = "read", !.rest = <<>>]
          /\ UNCHANGED <<detected, faults>>
       \/ /\ Paths[rd.i] # "-" /\ faults < MaxFaults
          /\ rd' = [rd EXCEPT !.apc = "fwd", !.item = ErrItem("open")]
          /\ detected' = Append(detected, "open")
          /\ faults' = faults + 1
    /\ UNCHANGED <<nflag, nerrors, paths, input, ck, sent, ms, fs, made,
                   removes, stdout, outbuf, stderr, errsClosed, exit, status>>

\* close(ch) in allLines.
CatAllClose ==
    /\ Running /\ rd.apc = "open" /\ rd.i > Len(Paths)
    /\ rd' = [rd EXCEPT !.apc = "done"]
    /\ UNCHANGED <<nflag, nerrors, paths, input, ck, sent, ms, fs, made,
                   removes, stdout, outbuf, stderr, detected, errsClosed,
                   exit, status, faults>>

\* The fragment-skipping loop of lines, "for prefix && err != nil".
cat_skipMore(r) == r.prefix /\ r.err # "nil"

RECURSIVE cat_skipFragments(_)
cat_skipFragments(r) ==
    IF ~cat_skipMore(r) THEN r
    ELSE LET n == ReadLine(r.rest, bufSize)
         IN  cat_skipFragments([r EXCEPT !.rest = n.rest,
                                         !.prefix = n.prefix,
                                         !.err = IF n.eof THEN "EOF"
                                                 ELSE "nil"])

\* What lines does with the result r of r.ReadLine().
catTake(r) ==
    /\ rd' = [rd EXCEPT !.b = r.b, !.rest = r.rest, !.prefix = r.prefix,
                        !.err = "nil",
                        !.pc = IF r.prefix THEN "send_long" ELSE "send_str"]
    /\ detected' = IF r.prefix THEN Append(detected, "long") ELSE detected

\* r.ReadLine() at the top of the loop of lines.
CatReadLine ==
    /\ Running /\ rd.pc = "read"
    /\ \/ \* the next physical line of the file
          /\ rd.rest = <<>> /\ Len(input) < MaxLines
          /\ \E l \in LineSet :
                /\ \E F \in LineFamilies :
                      \A i \in 1..(Len(input) + 1) : Append(input, l)[i] \in F
                /\ input' = Append(input, l)
                /\ catTake(ReadLine(l \o <<NL>>, bufSize))
          /\ UNCHANGED faults
       \/ \* the rest of a line that did not fit the buffer
          /\ rd.rest # <<>>
          /\ catTake(ReadLine(rd.rest, bufSize))
          /\ UNCHANGED <<input, faults>>
       \/ \* io.EOF: break and close(ch)
          /\ rd.rest = <<>>
          /\ rd' = [rd EXCEPT !.pc = "closed", !.err = "EOF"]
          /\ UNCHANGED <<input, detected, faults>>
       \/ \* a read error
          /\ rd.rest = <<>> /\ faults < MaxFaults
          /\ rd' = [rd EXCEPT !.pc = "send_err", !.err = "read"]
          /\ detected' = Append(detected, "read")
          /\ faults' = faults + 1
          /\ UNCHANGED input
    /\ UNCHANGED <<nflag, nerrors, paths, ck, sent, ms, fs, made, removes,
                   stdout, outbuf, stderr, errsClosed, exit, status>>

\* ch <- ... in lines, received by the range of allLines.
CatRelay ==
    /\ Running /\ rd.apc = "range"
    /\ rd.pc \in {"send_long", "send_err", "send_str"}
    /\ rd' = CASE rd.pc = "send_err" ->
                    [rd EXCEPT !.apc = "fwd", !.item = ErrItem("read"),
                               !.pc = "closed"]
               [] rd.pc = "send_str" ->
                    [rd EXCEPT !.apc = "fwd", !.item = StrItem(rd.b),
                               !.pc = "read"]
               [] OTHER ->
                    LET r == cat_skipFragments(rd)
                    IN  [r EXCEPT !.apc = "fwd", !.item = ErrItem("long"),
                                  !.pc = IF r.err # "nil" THEN "closed"
                                         ELSE "send_str"]
    /\ UNCHANGED <<nflag, nerrors, paths, input, ck, sent, ms, fs, made,
                   removes, stdout, outbuf, stderr, detected, errsClosed,
                   exit, status, faults>>

\* The range of allLines over lines ends: the next path.
CatLinesEnd ==
    /\ Running /\ rd.apc = "range" /\ rd.pc = "closed"
    /\ rd' = [rd EXCEPT !.apc = "open", !.pc = "off", !.i = @ + 1]
    /\ UNCHANGED <<nflag, nerrors, paths, input, ck, sent, ms, fs, made,
                   removes, stdout, outbuf, stderr, detected, errsClosed,
                   exit, status, faults>>

\* ch <- l in allLines, received by the range of chunks.
CatCkRecv ==
    /\ Running /\ rd.apc = "fwd" /\ ck.pc = "recv"
    /\ LET c == Append(ck.c, rd.item.str)
       IN  ck' = IF rd.item.err # "nil"
                 THEN [ck EXCEPT !.pc = "send_err", !.err = rd.item.err]
                 ELSE IF Len(c) = chunkSize
                 THEN [ck EXCEPT !.pc = "send", !.c = sortStrings(c)]
                 ELSE [ck EXCEPT !.c = c]
    /\ rd' = IF rd.item.err = "open"
             THEN [rd EXCEPT !.apc = "open", !.i = @ + 1]
             ELSE [rd EXCEPT !.apc = "range"]
    /\ UNCHANGED <<nflag, nerrors, paths, input, sent, ms, fs, made, removes,
                   stdout, outbuf, stderr, detected, errsClosed, exit, status,
                   faults>>

\* The range of chunks ends: the last, partial chunk is sorted.
CatCkLast ==
    /\ Running /\ rd.apc = "done" /\ ck.pc = "recv"
    /\ ck' = IF Len(ck.c) > 0
             THEN [ck EXCEPT !.pc = "sendlast", !.c = sortStrings(ck.c)]
             ELSE [ck EXCEPT !.pc = "close"]
    /\ UNCHANGED <<nflag, nerrors, paths, input, rd, sent, ms, fs, made,
                   removes, stdout, outbuf, stderr, detected, errsClosed,
                   exit, status, faults>>

\* close(ch) in chunks.
CatCkClose ==
    /\ Running /\ ck.pc = "close"
    /\ ck' = [ck EXCEPT !.pc = "done"]
    /\ UNCHANGED <<nflag, nerrors, paths, input, rd, sent, ms, fs, made,
                   removes, stdout, outbuf, stderr, detected, errsClosed,
                   exit, status, faults>>

(***************************************************************************)
(* cat/main.go, second program: main and mergeSort.                        *)
(***************************************************************************)
\* ch <- chunkErr{...} in chunks, received by the range of main; an error
\* is printed there and the range continues.
CatMainRecv ==
    /\ Running /\ ms.pc = "range"
    /\ ck.pc \in {"send_err", "send", "sendlast"}
    /\ IF ck.pc = "send_err"
       THEN /\ stderr' = Append(stderr, ck.err)
            /\ status' = 1
            /\ ck' = [ck EXCEPT !.pc = "recv", !.err = "nil"]
            /\ UNCHANGED <<ms, sent>>
       ELSE /\ ms' = [ms EXCEPT !.pc = "chunk", !.c = ck.c]
            /\ sent' = Append(sent, Len(ck.c))
            /\ ck' = [ck EXCEPT !.pc = IF ck.pc = "send" THEN "recv"
                                       ELSE "close",
                                !.c = <<>>]
            /\ UNCHANGED <<stderr, status>>
    /\ UNCHANGED <<nflag, nerrors, paths, input, rd, fs, made, removes,
                   stdout, outbuf, detected, errsClosed, exit, faults>>

\* The faults of a writeChunk of chunk c.
ChunkWriteFaults(c) ==
    {0} \cup (IF faults < MaxFaults THEN 1..(2 * Len(c) + 1) ELSE {})

\* "len(c.chunk) < chunkSize && len(stored) == 0".
cat_direct(c, stored) == Len(c) < chunkSize /\ Len(stored) = 0

\* The only chunk is short: writeChunk(os.Stdout, c.chunk), then break; an
\* error is printed and the process exits.
CatDirect ==
    /\ Running /\ ms.pc = "chunk" /\ cat_direct(ms.c, ms.stored)
    /\ \E wf \in ChunkWriteFaults(ms.c) :
          LET r == cat_writeChunk(ms.c, wf)
          IN  /\ r.hit
              /\ faults' = IF wf > 0 THEN faults + 1 ELSE faults
              /\ stdout' = stdout \o Prefix(Ser(ms.c), r.landed)
              /\ IF r.err
                 THEN /\ detected' = Append(detected, "write")
                      /\ stderr' = Append(stderr, "write")
                      /\ exit' = "exited"
                      /\ status' = 1
                      /\ UNCHANGED ms
                 ELSE /\ ms' = [ms EXCEPT !.pc = "merge"]
                      /\ UNCHANGED <<detected, stderr, exit, status>>
    /\ UNCHANGED <<nflag, nerrors, paths, input, rd, ck, sent, fs, made,
                   removes, outbuf, errsClosed>>

\* storeChunk(c.chunk): an error is printed and the process exits.
CatStore ==
    /\ Running /\ ms.pc = "chunk" /\ ~cat_direct(ms.c, ms.stored)
    /\ \/ \* ioutil.TempFile fails
          /\ faults < MaxFaults
          /\ faults' = faults + 1
          /\ detected' = Append(detected, "tmp")
          /\ stderr' = Append(stderr, "tmp")
          /\ exit' = "exited"
          /\ status' = 1
          /\ UNCHANGED <<ms, fs, made, removes>>
       \/ \E wf \in ChunkWriteFaults(ms.c) :
            LET f == made + 1
                r == cat_writeChunk(ms.c, wf)
            IN  /\ r.hit
                /\ made' = f
                /\ faults' = IF wf > 0 THEN faults + 1 ELSE faults
                /\ IF r.err
                   THEN \* the file is removed
                        /\ removes' = Append(removes, f)
                        /\ detected' = Append(detected, "write")
                        /\ stderr' = Append(stderr, "write")
                        /\ exit' = "exited"
                        /\ status' = 1
                        /\ UNCHANGED <<ms, fs>>
                   ELSE /\ fs' = (f :> Prefix(Ser(ms.c), r.landed)) @@ fs
                        /\ ms' = [ms EXCEPT !.pc = "range",
                                            !.stored = Append(@, f)]
                        /\ UNCHANGED <<removes, detected, stderr, exit,
                                       status>>
    /\ UNCHANGED <<nflag, nerrors, paths, input, rd, ck, sent, stdout, outbuf,
                   errsClosed>>

\* The range of main ends: chunks closed its channel.
CatRangeEnd ==
    /\ Running /\ ms.pc = "range" /\ ck.pc = "done"
    /\ ms' = [ms EXCEPT !.pc = "merge"]
    /\ UNCHANGED <<nflag, nerrors, paths, input, rd, ck, sent, fs, made,
                   removes, stdout, outbuf, stderr, detected, errsClosed,
                   exit, status, faults>>

\* What main does with what mergeSort returned: every name of cleanUp is
\* removed, an error is printed, and the process exits.
catReturn(files, cleanUp, err) ==
    /\ fs' = RemoveAll(files, cleanUp)
    /\ stderr' = IF err # "nil" THEN Append(stderr, err) ELSE stderr
    /\ status' = IF err # "nil" THEN 1 ELSE status
    /\ exit' = "exited"

\* One round of the loop of mergeSort with more than n paths; on an
\* error mergeSort returns the paths and the new name.
CatRound ==
    /\ Running /\ ms.pc = "merge" /\ Len(ms.stored) > mergeSize
    /\ \/ \* ioutil.TempFile fails: return paths, err
          /\ faults < MaxFaults
          /\ faults' = faults + 1
          /\ detected' = Append(detected, "tmp")
          /\ removes' = removes \o ms.stored
          /\ catReturn(fs, ms.stored, "tmp")
          /\ UNCHANGED <<ms, made>>
       \/ LET f == made + 1
          IN  \E fault \in MergeFaults(mergeSize) :
                LET r == cat_merge((f :> <<>>) @@ fs,
                                   SubSeq(ms.stored, 1, mergeSize), fault)
                    files == [r.files EXCEPT ![f] = r.landed]
                IN  /\ fault.kind # "none" => faults < MaxFaults /\ r.hit
                    /\ faults' = IF fault.kind # "none" THEN faults + 1
                                 ELSE faults
                    /\ made' = f
                    /\ IF r.err # "nil"
                       THEN /\ detected' = Append(detected, "merge")
                            /\ removes' = removes \o r.rm
                                            \o Append(ms.stored, f)
                            /\ catReturn(files, Append(ms.stored, f), "merge")
                            /\ UNCHANGED ms
                       ELSE /\ fs' = files
                            /\ removes' = removes \o r.rm
                            /\ ms' = [ms EXCEPT !.stored =
                                         Append(Drop(@, mergeSize), f)]
                            /\ UNCHANGED <<detected, stderr, status, exit>>
    /\ UNCHANGED <<nflag, nerrors, paths, input, rd, ck, sent, stdout, outbuf,
                   errsClosed>>

\* The last round, "return nil, merge(os.Stdout, paths)", or no path at
\* all, "return paths, nil"; then main as above.
CatFinal ==
    /\ Running /\ ms.pc = "merge" /\ Len(ms.stored) <= mergeSize
    /\ IF Len(ms.stored) = 0
       THEN /\ catReturn(fs, <<>>, "nil")
            /\ UNCHANGED <<removes, stdout, detected, faults>>
       ELSE \E fault \in MergeFaults(Len(ms.stored)) :
              LET r == cat_merge(fs, ms.stored, fault)
              IN  /\ fault.kind # "none" => faults < MaxFaults /\ r.hit
                  /\ faults' = IF fault.kind # "none" THEN faults + 1
                               ELSE faults
                  /\ removes' = removes \o r.rm
                  /\ stdout' = stdout \o r.landed
                  /\ detected' = IF r.err # "nil"
                                 THEN Append(detected, "merge") ELSE detected
                  /\ catReturn(r.files, <<>>,
                               IF r.err # "nil" THEN "merge" ELSE "nil")
    /\ UNCHANGED <<nflag, nerrors, paths, input, rd, ck, sent, ms, made,
                   outbuf, errsClosed>>

CatNext ==
    \/ CatOpen \/ CatAllClose \/ CatReadLine \/ CatRelay \/ CatLinesEnd
    \/ CatCkRecv \/ CatCkLast \/ CatCkClose
    \/ CatMainRecv \/ CatDirect \/ CatStore \/ CatRangeEnd
    \/ CatRound \/ CatFinal

SpecCat == CatInit /\ [][CatNext]_vars

\* C4: when the process has exited, no temporary file created during the
\* run is left, whether storeChunk, an intermediate merge or the final
\* merge failed.
C4_CleanupNeverSkipped == exit = "exited" => DOMAIN fs = {}


(***************************************************************************)
(* The first program of sort/main.go: goroutines readerLines -> allLines   *)
(* feed sortChunks, which main runs inside mergeSort.  rd holds the        *)
(* goroutines of readerLines (pc) and allLines (apc, item), ms the position *)
(* main with its chunk, the slices tmpFiles/files and tempFiles, and the   *)
(* error mergeSort returns; outbuf holds the bytes in the bufio.Writer on  *)
(* standard output.  nflag, ck and errsClosed do not change.               *)
(***************************************************************************)
\* A slice of names over its backing array: a is the array from the
\* slice's start to its capacity, n the length.  The name 0 is "", the
\* zero value of the array's unused elements.
NilSlice == [a |-> <<>>, n |-> 0]

Elems(s) == SubSeq(s.a, 1, s.n)

\* append(s, x): in place while the capacity allows, else into a new array
\* of twice the capacity (of one element for an empty one).
sliceAppend(s, x) ==
    IF s.n < Len(s.a) THEN [a |-> [s.a EXCEPT ![s.n + 1] = x], n |-> s.n + 1]
    ELSE [a |-> [i \in 1..(IF s.n = 0 THEN 1 ELSE 2 * s.n) |->
                   IF i <= s.n THEN s.a[i] ELSE IF i = s.n + 1 THEN x ELSE 0],
          n |-> s.n + 1]

\* s[k:]
sliceFrom(s, k) == [a |-> Drop(s.a, k), n |-> s.n - k]

(***************************************************************************)
(* mergeFiles.  A merge state m is as for the merges above, with the       *)
(* count T0 of bytes the writer had been handed before, the failing write  *)
(* wf of that writer, and what the goroutines of readerLines did: the      *)
(* messages they printed (msgs) and their increments of nerrors (nerr).    *)
(* An entry is [file, rest, line].                                         *)
(***************************************************************************)
\* The fragments readerLines discards after an overlong line: one
\* ReadLine, then "for prefix && err == nil".
RECURSIVE sort1_skip(_)
sort1_skip(r) ==
    IF r.eof \/ ~r.prefix THEN r.rest
    ELSE sort1_skip(ReadLine(r.rest, defaultBufSize))

\* "<-lines" for entry e, r being what the goroutine's ReadLine returns:
\* a read error is counted and printed by the goroutine, which closes the
\* channel; an overlong line is sent cut, and its rest is skipped.
sort1_recvOf(m, e, fault, r) ==
    IF fault.kind = "read" /\ fault.at = m.nr + 1
    THEN [m |-> [m EXCEPT !.nr = @ + 1, !.nerr = @ + 1,
                          !.msgs = Append(@, "read")],
          e |-> e, ok |-> FALSE]
    ELSE IF r.eof
    THEN [m |-> [m EXCEPT !.nr = @ + 1], e |-> e, ok |-> FALSE]
    ELSE [m |-> [m EXCEPT !.nr = @ + 1,
                          !.msgs = IF r.prefix THEN Append(@, "long") ELSE @],
          e |-> [e EXCEPT !.line = r.b,
                          !.rest = IF r.prefix
                                   THEN sort1_skip(ReadLine(r.rest,
                                                            defaultBufSize))
                                   ELSE r.rest],
          ok |-> TRUE]

sort1_recv(m, e, fault) ==
    sort1_recvOf(m, e, fault, ReadLine(e.rest, defaultBufSize))

\* remove(p) for a file that is exhausted.
sort1_drop(m, p) ==
    [m EXCEPT !.files = Remove(@, p), !.rm = Append(@, p)]

sort1_push(m, e) ==
    [m EXCEPT !.q = linePush(@, e),
              !.hmax = IF Len(m.q) + 1 > @ THEN Len(m.q) + 1 ELSE @]

\* The first loop of mergeFiles.
RECURSIVE sort1_mergeOpen(_, _, _)

sort1_opened(n, ps, fault) ==
    sort1_mergeOpen(IF n.ok THEN sort1_push(n.m, n.e)
                    ELSE sort1_drop(n.m, n.e.file),
                    Tail(ps), fault)

sort1_mergeOpen(m, ps, fault) ==
    IF ps = <<>> THEN m
    ELSE IF ~Exists(m.files, ps[1])
            \/ (fault.kind = "open" /\ fault.at = Len(m.op) + 1)
    THEN [m EXCEPT !.op = Append(@, ps[1]), !.err = "open"]
    ELSE sort1_opened(sort1_recv([m EXCEPT !.op = Append(@, ps[1])],
                                 [file |-> ps[1], rest |-> m.files[ps[1]],
                                  line |-> <<>>],
                                 fault),
                      ps, fault)

RECURSIVE sort1_mergeLoop(_, _)

\* writeLine(out, line) within m, and the rest of the loop.
sort1_writeLine(m, line, fault) ==
    IF WriteFails(m.T0 + Len(m.out), m.T0 + Len(m.out) + Len(line) + 1,
                  bufSize, m.wf)
    THEN [m EXCEPT !.out = @ \o line \o <<NL>>, !.err = "write"]
    ELSE sort1_mergeLoop([m EXCEPT !.out = @ \o line \o <<NL>>], fault)

sort1_afterRecv(n, line, fault) ==
    sort1_writeLine(IF n.ok THEN sort1_push(n.m, n.e)
                    ELSE sort1_drop(n.m, n.e.file),
                    line, fault)

sort1_afterPop(m, p, fault) ==
    sort1_afterRecv(sort1_recv([m EXCEPT !.q = p.h], p.x, fault),
                    p.x.line, fault)

\* The second loop of mergeFiles: pop, receive the next line, push back
\* or remove, write.
sort1_mergeLoop(m, fault) ==
    IF m.q = <<>> THEN m ELSE sort1_afterPop(m, linePop(m.q), fault)

\* What mergeFiles leaves; hit tells whether the fault of reading or
\* opening happened.
sort1_mergeResult(m, fault) ==
    [files |-> m.files, err |-> m.err, rm |-> m.rm, op |-> m.op,
     hmax |-> m.hmax, out |-> m.out, msgs |-> m.msgs, nerr |-> m.nerr,
     hit |-> CASE fault.kind = "open" -> fault.at <= Len(m.op)
                                         /\ m.err = "open"
               [] fault.kind = "read" -> fault.at <= m.nr
               [] OTHER -> TRUE]

sort1_mergeFrom(m1, fault) ==
    sort1_mergeResult(IF m1.err # "nil" THEN m1
                      ELSE sort1_mergeLoop(m1, fault), fault)

\* mergeFiles(out, ps) on the files; out has been handed T0 bytes and its
\* wf-th write fails.
mergeFiles(files, ps, fault, T0, wf) ==
    sort1_mergeFrom(sort1_mergeOpen([files |-> files, q |-> <<>>,
                                     out |-> <<>>, nr |-> 0, rm |-> <<>>,
                                     op |-> <<>>, hmax |-> 0, err |-> "nil",
                                     msgs |-> <<>>, nerr |-> 0, T0 |-> T0,
                                     wf |-> wf],
                                    ps, fault),
                    fault)

\* The faults of opening and reading a mergeFiles of n paths may be given.
ReadFaults(n) ==
    {NoFault}
    \cup { [kind |-> k, at |-> i] :
             k \in {"open", "read"}, i \in 1..(MaxLines + n + 2) }

\* The faults of a bufio.Writer of bufSize bytes that is handed T bytes.
BufWriteFaults(T) ==
    {0} \cup (IF faults < MaxFaults
              THEN 1..(AutoFlushed(T, bufSize) \div bufSize + 1)
              ELSE {})

\* The bytes of the files named in ps.
RECURSIVE Bytes(_, _)
Bytes(files, ps) ==
    IF ps = <<>> THEN 0
    ELSE (IF Exists(files, ps[1]) THEN Len(files[ps[1]]) ELSE 0)
         + Bytes(files, Tail(ps))

Sort1Init ==
    /\ nflag = FALSE
    /\ paths \in UNION { [1..n -> {"f"}] : n \in 0..MaxPaths }
    /\ input = <<>>
    /\ rd = [pc |-> "off", apc |-> "open", i |-> 1, rest |-> <<>>,
             b |-> <<>>, prefix |-> FALSE, err |-> "nil", item |-> <<>>]
    /\ ck = [pc |-> "none", c |-> <<>>]
    /\ sent = <<>>
    /\ ms = [pc |-> "lines", chunk |-> <<>>, line |-> <<>>,
             files |-> NilSlice, tempFiles |-> <<>>, err |-> "nil",
             owf |-> 0]
    /\ fs = <<>>
    /\ made = 0
    /\ removes = <<>>
    /\ stdout = <<>>
    /\ outbuf = <<>>
    /\ stderr = <<>>
    /\ detected = <<>>
    /\ errsClosed = FALSE
    /\ exit = "running"
    /\ status = 0
    /\ nerrors = 0
    /\ faults = 0

(***************************************************************************)
(* sort/main.go, first program: allLines and readerLines                   *)
(***************************************************************************)
\* allLines at the top of its range over paths: standard input, or
\* os.Open(p), whose failure is counted and printed; then readerLines(in)
\* starts its goroutine.
Sort1Open ==
    /\ Running /\ rd.apc = "open" /\ rd.i <= Len(Paths)
    /\ \/ /\ rd' = [rd EXCEPT !.apc = "range", !.pc = "read", !.rest = <<>>]
          /\ UNCHANGED <<detected, faults, nerrors, stderr>>
       \/ /\ Paths[rd.i] # "-" /\ faults < MaxFaults
          /\ rd' = [rd EXCEPT !.i = @ + 1]
          /\ nerrors' = nerrors + 1
          /\ stderr' = Append(stderr, "open")
          /\ detected' = Append(detected, "open")
          /\ faults' = faults + 1
    /\ UNCHANGED <<nflag, paths, input, ck, sent, ms, fs, made, removes,
                   stdout, outbuf, errsClosed, exit, status>>

\* close(ch) in allLines.
Sort1AllClose ==
    /\ Running /\ rd.apc = "open" /\ rd.i > Len(Paths)
    /\ rd' = [rd EXCEPT !.apc = "done"]
    /\ UNCHANGED <<nflag, nerrors, paths, input, ck, sent, ms, fs, made,
                   removes, stdout, outbuf, stderr, detected, errsClosed,
                   exit, status, faults>>

\* What readerLines does with the result r of in.ReadLine() when err is
\* nil: it is about to send string(l).
sort1Take(r) ==
    rd' = [rd EXCEPT !.b = r.b, !.rest = r.rest, !.prefix = r.prefix,
                     !.err = "nil", !.pc = "send"]

\* in.ReadLine() at the top of the loop of readerLines; on an error the
\* loop ends, an error other than io.EOF is counted and printed, and the
\* channel is closed.
Sort1ReadLine ==
    /\ Running /\ rd.pc = "read"
    /\ \/ \* the next physical line of the file
          /\ rd.rest = <<>> /\ Len(input) < MaxLines
          /\ \E l \in LineSet :
                /\ \E F \in LineFamilies :
                      \A i \in 1..(Len(input) + 1) : Append(input, l)[i] \in F
                /\ input' = Append(input, l)
                /\ sort1Take(ReadLine(l \o <<NL>>, defaultBufSize))
          /\ UNCHANGED <<faults, nerrors, stderr, detected>>
       \/ \* what is left of the input after an overlong line's rest
          /\ rd.rest # <<>>
          /\ sort1Take(ReadLine(rd.rest, defaultBufSize))
          /\ UNCHANGED <<input, faults, nerrors, stderr, detected>>
       \/ \* io.EOF
          /\ rd.rest = <<>>
          /\ rd' = [rd EXCEPT !.pc = "closed", !.err = "EOF"]
          /\ UNCHANGED <<input, faults, nerrors, stderr, detected>>
       \/ \* a read error
          /\ rd.rest = <<>> /\ faults < MaxFaults
          /\ rd' = [rd EXCEPT !.pc = "closed", !.err = "read"]
          /\ nerrors' = nerrors + 1
          /\ stderr' = Append(stderr, "read")
          /\ detected' = Append(detected, "read")
          /\ faults' = faults + 1
          /\ UNCHANGED input
    /\ UNCHANGED <<nflag, paths, ck, sent, ms, fs, made, removes, stdout,
                   outbuf, errsClosed, exit, status>>

\* ch <- string(l) in readerLines, received by the range of allLines;
\* after an overlong line readerLines prints its message and discards
\* the rest of the line, without counting an error.
Sort1Relay ==
    /\ Running /\ rd.apc = "range" /\ rd.pc = "send"
    /\ rd' = [rd EXCEPT !.apc = "fwd", !.item = rd.b, !.pc = "read",
                        !.prefix = FALSE,
                        !.rest = IF rd.prefix
                                 THEN sort1_skip(ReadLine(rd.rest,
                                                          defaultBufSize))
                                 ELSE @]
    /\ stderr' = IF rd.prefix THEN Append(stderr, "long") ELSE stderr
    /\ detected' = IF rd.prefix THEN Append(detected, "long") ELSE detected
    /\ UNCHANGED <<nflag, nerrors, paths, input, ck, sent, ms, fs, made,
                   removes, stdout, outbuf, errsClosed, exit, status, faults>>

\* The range of allLines over readerLines ends: the next path.
Sort1LinesEnd ==
    /\ Running /\ rd.apc = "range" /\ rd.pc = "closed"
    /\ rd' = [rd EXCEPT !.apc = "open", !.pc = "off", !.i = @ + 1]
    /\ UNCHANGED <<nflag, nerrors, paths, input, ck, sent, ms, fs, made,
                   removes, stdout, outbuf, stderr, detected, errsClosed,
                   exit, status, faults>>

(***************************************************************************)
(* sort/main.go, first program: main, mergeSort and sortChunks             *)
(***************************************************************************)
\* ch <- l in allLines, received by the range of sortChunks: a full chunk
\* is spilled before the line is added.
Sort1Recv ==
    /\ Running /\ rd.apc = "fwd" /\ ms.pc = "lines"
    /\ rd' = [rd EXCEPT !.apc = "range"]
    /\ ms' = IF Len(ms.chunk) = chunkSize
             THEN [ms EXCEPT !.pc = "spill", !.line = rd.item]
             ELSE [ms EXCEPT !.chunk = Append(@, rd.item)]
    /\ UNCHANGED <<nflag, nerrors, paths, input, ck, sent, fs, made, removes,
                   stdout, outbuf, stderr, detected, errsClosed, exit, status,
                   faults>>

\* writeChunk(chunk) of sort/main.go on the sorted chunk c: the file is
\* named in tempFiles as soon as it exists; an error of writeLine is
\* returned, one of the deferred Flush is dropped.  next is where main
\* goes on when there is no error.
sort1WriteChunk(c, next) ==
    \/ \* ioutil.TempFile fails
       /\ faults < MaxFaults
       /\ faults' = faults + 1
       /\ detected' = Append(detected, "tmp")
       /\ ms' = [ms EXCEPT !.pc = "finish", !.err = "tmp"]
       /\ UNCHANGED <<fs, made, sent>>
    \/ LET f == made + 1
           T == Len(Ser(c))
       IN  \E wf \in BufWriteFaults(T) :
             /\ made' = f
             /\ faults' = IF wf > 0 THEN faults + 1 ELSE faults
             /\ fs' = (f :> Prefix(Ser(c), Landed(T, bufSize, wf))) @@ fs
             /\ sent' = Append(sent, Len(c))
             /\ IF wf > 0 /\ wf * bufSize < T
                THEN /\ detected' = Append(detected, "write")
                     /\ ms' = [ms EXCEPT !.pc = "finish", !.err = "write",
                                         !.tempFiles = Append(@, f)]
                ELSE /\ ms' = [ms EXCEPT !.pc = next,
                                         !.tempFiles = Append(@, f),
                                         !.files = sliceAppend(@, f),
                                         !.chunk = IF next = "lines"
                                                   THEN <<ms.line>> ELSE <<>>]
                     /\ UNCHANGED detected

\* "if len(chunk) == chunkSize" in the range of sortChunks.
Sort1Spill ==
    /\ Running /\ ms.pc = "spill"
    /\ sort1WriteChunk(sortStrings(ms.chunk), "lines")
    /\ UNCHANGED <<nflag, nerrors, paths, input, rd, ck, removes, stdout,
                   outbuf, stderr, errsClosed, exit, status>>

\* "len(tmpFiles) == 0" after the range of sortChunks.
sort1_direct(tmpFiles) == tmpFiles.n = 0

\* The range of sortChunks ends: the last chunk is written to out when
\* it is the only one, where an error of writeLine is counted and
\* printed, and to a file otherwise.
Sort1Last ==
    /\ Running /\ ms.pc = "lines" /\ rd.apc = "done"
    /\ IF Len(ms.chunk) = 0
       THEN /\ ms' = [ms EXCEPT !.pc = "merge"]
            /\ UNCHANGED <<fs, made, sent, stdout, outbuf, stderr, detected,
                           nerrors, faults>>
       ELSE IF sort1_direct(ms.files)
       THEN LET stream == Ser(sortStrings(ms.chunk))
                T      == Len(stream)
            IN  \E wf \in BufWriteFaults(T) :
                  LET n == Min(AutoFlushed(T, bufSize),
                               Landed(T, bufSize, wf))
                      failed == wf > 0 /\ wf * bufSize < T
                  IN  /\ stdout' = stdout \o Prefix(stream, n)
                      /\ outbuf' = Drop(stream, n)
                      /\ sent' = Append(sent, Len(ms.chunk))
                      /\ faults' = IF wf > 0 THEN faults + 1 ELSE faults
                      /\ nerrors' = IF failed THEN nerrors + 1 ELSE nerrors
                      /\ stderr' = IF failed THEN Append(stderr, "write")
                                   ELSE stderr
                      /\ detected' = IF failed THEN Append(detected, "write")
                                     ELSE detected
                      /\ ms' = [ms EXCEPT !.pc = "finish", !.owf = wf,
                                          !.chunk = <<>>]
                      /\ UNCHANGED <<fs, made>>
       ELSE /\ sort1WriteChunk(sortStrings(ms.chunk), "merge")
            /\ UNCHANGED <<stdout, outbuf, stderr, nerrors>>
    /\ UNCHANGED <<nflag, paths, input, rd, ck, removes, errsClosed, exit,
                   status>>

\* One round of the loop of mergeSort with more than mergeSize files: the
\* new file is named in tempFiles and appended to files[mergeSize:]
\* before files[:mergeSize] is taken, which panics when the capacity of
\* the new slice is below mergeSize.
Sort1Round ==
    /\ Running /\ ms.pc = "merge" /\ ms.files.n > mergeSize
    /\ \/ \* ioutil.TempFile fails
          /\ faults < MaxFaults
          /\ faults' = faults + 1
          /\ detected' = Append(detected, "tmp")
          /\ ms' = [ms EXCEPT !.pc = "finish", !.err = "tmp"]
          /\ UNCHANGED <<fs, made, removes, stderr, nerrors, exit, status>>
       \/ LET f     == made + 1
              files == sliceAppend(sliceFrom(ms.files, mergeSize), f)
          IN  IF Len(files.a) < mergeSize
              THEN \* slice bounds out of range
                   /\ made' = f
                   /\ fs' = (f :> <<>>) @@ fs
                   /\ exit' = "panic"
                   /\ status' = 2
                   /\ ms' = [ms EXCEPT !.tempFiles = Append(@, f),
                                       !.files = files]
                   /\ UNCHANGED <<removes, stderr, nerrors, detected, faults>>
              ELSE \E fault \in ReadFaults(mergeSize) :
                   \E wf \in {0} \cup
                             (IF faults < MaxFaults /\ fault.kind = "none"
                              THEN 1..(Bytes(fs, Elems(ms.files))
                                         \div bufSize + 1)
                              ELSE {}) :
                     LET r == mergeFiles((f :> <<>>) @@ fs,
                                         SubSeq(files.a, 1, mergeSize),
                                         fault, 0, wf)
                         T == Len(r.out)
                     IN  /\ fault.kind # "none" => faults < MaxFaults /\ r.hit
                         /\ wf > 0 => (wf - 1) * bufSize < T
                         /\ faults' = IF fault.kind # "none" \/ wf > 0
                                      THEN faults + 1 ELSE faults
                         /\ made' = f
                         /\ fs' = IF Exists(r.files, f)
                                  THEN [r.files EXCEPT ![f] =
                                          Prefix(r.out,
                                                 Landed(T, bufSize, wf))]
                                  ELSE r.files
                         /\ removes' = removes \o r.rm
                         /\ stderr' = stderr \o r.msgs
                         /\ nerrors' = nerrors + r.nerr
                         /\ detected' = detected \o r.msgs \o
                                          (IF r.err # "nil" THEN <<"merge">>
                                           ELSE <<>>)
                         /\ ms' = [ms EXCEPT
                                     !.tempFiles = Append(@, f),
                                     !.files = files,
                                     !.err = IF r.err # "nil" THEN "merge"
                                             ELSE @,
                                     !.pc = IF r.err # "nil" THEN "finish"
                                            ELSE @]
                         /\ UNCHANGED <<exit, status>>
    /\ UNCHANGED <<nflag, paths, input, rd, ck, sent, stdout, outbuf,
                   errsClosed>>

\* The rest of mergeSort: nothing to merge, or mergeFiles(out, files) and
\* break.
Sort1Final ==
    /\ Running /\ ms.pc = "merge" /\ ms.files.n <= mergeSize
    /\ IF ms.files.n <= 1
       THEN /\ ms' = [ms EXCEPT !.pc = "finish"]
            /\ UNCHANGED <<fs, removes, stdout, outbuf, stderr, nerrors,
                           detected, faults>>
       ELSE \E fault \in ReadFaults(ms.files.n) :
            \E wf \in {0} \cup
                      (IF faults < MaxFaults /\ fault.kind = "none"
                       THEN 1..(Bytes(fs, Elems(ms.files)) \div bufSize + 1)
                       ELSE {}) :
              LET r == mergeFiles(fs, Elems(ms.files), fault, 0, wf)
                  T == Len(r.out)
                  n == Min(AutoFlushed(T, bufSize), Landed(T, bufSize, wf))
              IN  /\ fault.kind # "none" => faults < MaxFaults /\ r.hit
                  /\ wf > 0 => (wf - 1) * bufSize < T
                  /\ faults' = IF fault.kind # "none" \/ wf > 0
                               THEN faults + 1 ELSE faults
                  /\ fs' = r.files
                  /\ removes' = removes \o r.rm
                  /\ stdout' = stdout \o Prefix(r.out, n)
                  /\ outbuf' = Drop(r.out, n)
                  /\ stderr' = stderr \o r.msgs
                  /\ nerrors' = nerrors + r.nerr
                  /\ detected' = detected \o r.msgs \o
                                   (IF r.err # "nil" THEN <<"merge">>
                                    ELSE <<>>)
                  /\ ms' = [ms EXCEPT !.pc = "finish", !.owf = wf,
                                      !.err = IF r.err # "nil" THEN "merge"
                                              ELSE @]
    /\ UNCHANGED <<nflag, paths, input, rd, ck, sent, made, errsClosed, exit,
                   status>>

\* The names remove(paths...) fails to delete: rf is the one os.Remove of
\* an existing file that fails, 0 for none.
RECURSIVE RemoveBut(_, _, _)
RemoveBut(files, ps, rf) ==
    IF ps = <<>> THEN files
    ELSE RemoveBut(IF ps[1] = rf THEN files ELSE Remove(files, ps[1]),
                   Tail(ps), rf)

\* main after mergeSort returned: remove(tempFiles...), whose failures
\* are counted and printed; the error is printed; os.Exit(1) when there
\* is an error or nerrors > 0, and otherwise main returns and the
\* deferred w.Flush() runs.
Sort1Exit ==
    /\ Running /\ ms.pc = "finish"
    /\ \E rf \in {0} \cup (IF faults < MaxFaults
                           THEN {p \in DOMAIN fs :
                                   \E k \in 1..Len(ms.tempFiles) :
                                      ms.tempFiles[k] = p}
                           ELSE {}) :
         LET n   == nerrors + (IF rf > 0 THEN 1 ELSE 0)
             bad == ms.err # "nil" \/ n > 0
         IN  /\ fs' = RemoveBut(fs, ms.tempFiles, rf)
             /\ removes' = removes \o ms.tempFiles
             /\ faults' = IF rf > 0 THEN faults + 1 ELSE faults
             /\ nerrors' = n
             /\ detected' = IF rf > 0 THEN Append(detected, "remove")
                            ELSE detected
             /\ stderr' = stderr \o (IF rf > 0 THEN <<"remove">> ELSE <<>>)
                                 \o (IF ms.err # "nil" THEN <<ms.err>>
                                     ELSE <<>>)
             /\ status' = IF bad THEN 1 ELSE 0
             /\ stdout' = IF bad THEN stdout
                          ELSE Prefix(stdout \o outbuf,
                                      Landed(Len(stdout) + Len(outbuf),
                                             bufSize, ms.owf))
             /\ outbuf' = IF bad THEN outbuf ELSE <<>>
             /\ exit' = "exited"
    /\ UNCHANGED <<nflag, paths, input, rd, ck, sent, ms, made, errsClosed>>

Sort1Next ==
    \/ Sort1Open \/ Sort1AllClose \/ Sort1ReadLine \/ Sort1Relay
    \/ Sort1LinesEnd
    \/ Sort1Recv \/ Sort1Spill \/ Sort1Last
    \/ Sort1Round \/ Sort1Final \/ Sort1Exit

SpecSort1 == Sort1Init /\ [][Sort1Next]_vars

\* C6: when exactly one of several input paths could not be opened and
\* nothing else went wrong, the process exits with status 1, the error
\* has been printed, and standard output holds every line that was read,
\* in sorted order.
C6_OpenFailureKeepsOutput ==
    (exit = "exited" /\ Len(paths) >= 2 /\ detected = <<"open">>)
        => /\ status = 1
           /\ stderr = <<"open">>
           /\ SplitLines(stdout) = sortStrings(input)

\* C7: the exit status is 0 exactly when no error condition, recoverable
\* or fatal, came up during the run, and 1 otherwise.
C7_ExitStatus ==
    exit = "exited" =>
        /\ (status = 0 <=> detected = <<>>)
        /\ status \in {0, 1}


\* A run of the first program of sort/main.go in which nothing went wrong
\* prints the sorted lines of its input.
T_Sort1Clean ==
    (exit = "exited" /\ detected = <<>> /\ faults = 0)
        => (status = 0 /\ SplitLines(stdout) = sortStrings(input))

\* A run of the second program of cat/main.go in which nothing went
\* wrong prints the sorted lines of its input.
T_CatClean ==
    (exit = "exited" /\ detected = <<>> /\ faults = 0)
        => (status = 0 /\ SplitLines(stdout) = sortStrings(input))

\* The lines of the input that fit the reader's buffer, in input order.
ShortLines == SelectSeq(input, LAMBDA l : ~Overlong(l))

OnlyLong(d) == \A i \in 1..Len(d) : d[i] = "long"

\* C11: when nothing went wrong except that some input lines were too
\* long for the reader's buffer, no part of an overlong line is in the
\* output: standard output holds exactly the other lines, sorted.
C11_OverlongExcluded ==
    (exit = "exited" /\ faults = 0 /\ OnlyLong(detected))
        => SplitLines(stdout) = sortStrings(ShortLines)

\* C12: in numeric mode the lines of the output that have equal numeric
\* keys stand in lexicographic order of their full text, so that the
\* comparator leaves ties between identical lines only.
C12_TiesLexicographic ==
    (CleanRun /\ NoOverlong /\ nflag)
        => LET out == SplitLines(stdout)
           IN  \A i \in 1..(Len(out) - 1) :
                  makeLine(out[i]).num = makeLine(out[i + 1]).num
                      => ~StrLess(out[i + 1], out[i])

(***************************************************************************)
(* makeLine and line.less on numeric keys                                  *)
(*                                                                         *)
(* chunks(lines, sz) collecting and sorting one chunk of lines whose       *)
(* integer prefixes reach the ends of the 32-bit range.  The lines come    *)
(* from the channel directly; reading them from a file is left out.        *)
(***************************************************************************)
KeysSz == 3

\* "-2147483648": the text of math.MinInt32.
MinInt32Line == <<45, 50, 49, 52, 55, 52, 56, 51, 54, 52, 56>>

\* "a", "1", "-1" and "-2147483648".
KeyLines == { <<97>>, <<49>>, <<45, 49>>, MinInt32Line }

KeysInit == Init /\ paths = <<>>

\* c = append(c, makeLine(l)) in the range of chunks.
KeysAppend ==
    /\ ck.pc = "recv" /\ Len(ck.c) < KeysSz
    /\ \E l \in KeyLines :
          /\ input' = Append(input, l)
          /\ ck' = [ck EXCEPT !.c = Append(@, makeLine(l))]
    /\ UNCHANGED <<nflag, nerrors, paths, rd, sent, ms, fs, made, removes,
                   stdout, outbuf, stderr, detected, errsClosed, exit, status,
                   faults>>

\* sort.Sort(c) in chunks, when the chunk is full or the lines have ended.
KeysSort ==
    /\ ck.pc = "recv" /\ Len(ck.c) > 0
    /\ ck' = [pc |-> "sendlast", c |-> sortChunk(ck.c)]
    /\ UNCHANGED <<nflag, nerrors, paths, input, rd, sent, ms, fs, made,
                   removes, stdout, outbuf, stderr, detected, errsClosed,
                   exit, status, faults>>

KeysNext == KeysAppend \/ KeysSort

SpecKeys == KeysInit /\ [][KeysNext]_vars

Parsable(s) == Sscanf(s).ok

\* C13: in numeric mode every line without a parsable integer prefix
\* stands before every line that has one, whatever the integer, in a
\* sorted chunk.
C13_UnparsableFirst ==
    (nflag /\ ck.pc = "sendlast")
        => \A i, j \in 1..Len(ck.c) :
              (i < j /\ Parsable(ck.c[i].str)) => Parsable(ck.c[j].str)

(***************************************************************************)
(* part_003 as a function from the lines read to the bytes written, for    *)
(* runs without I/O failures and without overlong lines: chunks, then      *)
(* mergeSort.  It serves to compare the outputs of two runs.               *)
(***************************************************************************)
\* chunks: the sorted chunks of at most chunkSize lines, in order.
RECURSIVE chunksOf(_)
chunksOf(ls) ==
    IF ls = <<>> THEN <<>>
    ELSE <<sortChunk([i \in 1..Min(Len(ls), chunkSize) |-> makeLine(ls[i])])>>
             \o chunksOf(Drop(ls, Min(Len(ls), chunkSize)))

\* "for len(tmps) > mergeSize" and the last merge to standard output;
\* files maps every temporary file to its bytes, last is the newest name.
RECURSIVE roundsOf(_, _, _)
roundNext(r, tmps, f) ==
    roundsOf([r.files EXCEPT ![f] = r.landed],
             Append(Drop(tmps, mergeSize), f), f)

roundsOf(files, tmps, last) ==
    IF Len(tmps) > mergeSize
    THEN roundNext(merge((last + 1 :> <<>>) @@ files,
                         SubSeq(tmps, 1, mergeSize), NoFault),
                   tmps, last + 1)
    ELSE merge(files, tmps, NoFault).landed

\* What mergeSort writes to standard output for the lines ls: a single
\* short chunk goes there directly, any other is spilled and merged.
sortRun(ls) ==
    IF ls = <<>> THEN <<>>
    ELSE IF Len(ls) < chunkSize THEN Ser(Strs(chunksOf(ls)[1]))
    ELSE roundsOf([k \in 1..Len(chunksOf(ls)) |-> Ser(Strs(chunksOf(ls)[k]))],
                  [k \in 1..Len(chunksOf(ls)) |-> k], Len(chunksOf(ls)))

\* The function agrees with the state machine on every clean run.
T_SortRunAgrees == (CleanRun /\ NoOverlong) => stdout = sortRun(input)

\* The lines of the input from line k + 1 on, followed by the first k.
Swapped(k) == Drop(input, k) \o Prefix(input, k)

\* C14: with two files on the command line, the output is the output of
\* the run that is given the same two files in the other order, wherever
\* the first file ends and the second begins.
C14_FileOrderIrrelevant ==
    (CleanRun /\ NoOverlong /\ Len(paths) = 2)
        => \A k \in 0..Len(input) : sortRun(Swapped(k)) = stdout

\* C15: sorting is idempotent: the run that is given the output of a clean
\* run as its input, in the same mode, writes that same output again.
C15_Idempotent ==
    (CleanRun /\ NoOverlong) => sortRun(SplitLines(stdout)) = stdout

\* C16: whenever mergeSort is about to call merge(os.Stdout, tmps), tmps
\* names at most mergeSize files, after a failed merge round or a failed
\* creation of a temporary file too, so that no merge has more than
\* mergeSize files open.
C16_FinalMergeBounded == ms.pc = "final" => Len(ms.tmps) <= mergeSize

\* mergeSort has returned after writeChunk failed on a chunk that came
\* after at least one spilled chunk: one chunk more was received than
\* there are names in tmps.
ChunkFailedAfterSpill ==
    /\ ms.pc = "done" /\ NoOverlong
    /\ detected \in {<<"tmp">>, <<"write">>}
    /\ Len(ms.tmps) > 0 /\ Len(sent) = Len(ms.tmps) + 1

\* C17: when the temporary file of chunk k could not be created or
\* written after chunks 1..k-1 were spilled, the error has been reported
\* and standard output holds the lines of chunks 1..k-1.
C17_BestEffortOutput ==
    ChunkFailedAfterSpill
        => /\ stderr = <<"mergeSort">>
           /\ SameLines(SplitLines(stdout),
                        Prefix(input, chunkSize * Len(ms.tmps)))

\* C18: no temporary file is the target of two calls of os.Remove: a
\* file that nextLine removed at its end is not removed again by the
\* loop at the label out.
C18_RemovedOnce ==
    \A i, j \in 1..Len(removes) : removes[i] = removes[j] => i = j

\* C19: merging in rounds loses and repeats nothing: when no I/O failed
\* and no line was overlong, standard output holds the lines of the
\* input, each as often as it was read, for any number of spill files.
C19_EveryLineOnce ==
    (exit = "exited" /\ faults = 0 /\ NoOverlong)
        => SameLines(SplitLines(stdout), input)

(***************************************************************************)
(* sort/main.go, second program.  It is part_003 without the -n flag and   *)
(* with another loop after the range of mergeSort; main, readAllLines,     *)
(* readLines, chunks, writeChunk, the chunk files, the heap and merge are  *)
(* the same text in both, so their actions above are the ones used here,   *)
(* with nflag = FALSE.  Where part_003 calls out.WriteString(s + "\n")     *)
(* this program calls fmt.Fprintln(out, s), which hands the same bytes to  *)
(* out.Write in one call; the two fill and flush the buffer alike unless   *)
(* the line with its newline is longer than the buffer, and then differ    *)
(* only in the bytes that have reached the file when a write fails.        *)
(***************************************************************************)
Sort2Init == Init /\ nflag = FALSE

\* "for len(tmps) > 0" with no name left: on to the label out.
Sort2LoopEnd ==
    /\ Running /\ ms.pc = "loop" /\ Len(ms.tmps) = 0
    /\ ms' = [ms EXCEPT !.pc = "out"]
    /\ UNCHANGED <<nflag, nerrors, paths, input, rd, ck, sent, fs, made,
                   removes, stdout, outbuf, stderr, detected, errsClosed,
                   exit, status, faults>>

\* "if len(tmps) < mergeSize { merge(os.Stdout, tmps); break }".
Sort2Final ==
    /\ Running /\ ms.pc = "loop"
    /\ Len(ms.tmps) > 0 /\ Len(ms.tmps) < mergeSize
    /\ \E fault \in MergeFaults(Len(ms.tmps)) :
          LET r == merge(fs, ms.tmps, fault)
          IN  /\ fault.kind # "none" => faults < MaxFaults /\ r.hit
              /\ faults' = IF fault.kind # "none" THEN faults + 1 ELSE faults
              /\ fs' = r.files
              /\ removes' = removes \o r.rm
              /\ stdout' = stdout \o r.landed
              /\ detected' = IF r.err # "nil"
                             THEN Append(detected, "merge") ELSE detected
              /\ ms' = [ms EXCEPT !.pc = IF r.err # "nil"
                                         THEN "errs_final" ELSE "out"]
    /\ UNCHANGED <<nflag, nerrors, paths, input, rd, ck, sent, made, outbuf,
                   stderr, errsClosed, exit, status>>

\* The rest of the loop body, reached when len(tmps) >= mergeSize: a new
\* temporary file, merge(f, tmps[:mergeSize]), and
\* tmps = append(tmps[mergeSize:], f.Name()); an error is sent and ends
\* the loop.
Sort2Round ==
    /\ Running /\ ms.pc = "loop" /\ Len(ms.tmps) >= mergeSize
    /\ \/ \* ioutil.TempFile fails: break
          /\ faults < MaxFaults
          /\ faults' = faults + 1
          /\ detected' = Append(detected, "tmp")
          /\ ms' = [ms EXCEPT !.pc = "errs_round"]
          /\ UNCHANGED <<fs, made, removes>>
       \/ LET f == made + 1
          IN  \E fault \in MergeFaults(mergeSize) :
                LET r == merge((f :> <<>>) @@ fs,
                               SubSeq(ms.tmps, 1, mergeSize), fault)
                IN  /\ fault.kind # "none" => faults < MaxFaults /\ r.hit
                    /\ faults' = IF fault.kind # "none" THEN faults + 1
                                 ELSE faults
                    /\ made' = f
                    /\ fs' = [r.files EXCEPT ![f] = r.landed]
                    /\ removes' = removes \o r.rm
                    /\ detected' = IF r.err # "nil"
                                   THEN Append(detected, "merge") ELSE detected
                    /\ ms' = [ms EXCEPT
                                !.tmps = Append(Drop(@, mergeSize), f),
                                !.pc = IF r.err # "nil" THEN "errs_round"
                                       ELSE "loop"]
    /\ UNCHANGED <<nflag, nerrors, paths, input, rd, ck, sent, stdout, outbuf,
                   stderr, errsClosed, exit, status>>

\* "errs <- err; break" in the loop body, received and printed by main.
Sort2SendErr ==
    /\ Running /\ ~errsClosed /\ ms.pc = "errs_round"
    /\ stderr' = Append(stderr, "mergeSort")
    /\ status' = 1
    /\ ms' = [ms EXCEPT !.pc = "out"]
    /\ UNCHANGED <<nflag, nerrors, paths, input, rd, ck, sent, fs, made,
                   removes, stdout, outbuf, detected, errsClosed, exit,
                   faults>>

Sort2Next ==
    \/ RdOpen \/ RdReadLine \/ RdSendErr \/ RdPanic \/ RdClose
    \/ CkRecv \/ CkLast \/ CkSend \/ CkClose
    \/ MsDirect \/ MsWriteChunk \/ MsRangeEnd
    \/ Sort2LoopEnd \/ Sort2Final \/ Sort2Round \/ Sort2SendErr
    \/ MsSendErr \/ MsOut \/ MsReturn
    \/ MainExit

SpecSort2 == Sort2Init /\ [][Sort2Next]_vars

\* C20: a merge round into a new temporary file is run only while more
\* than mergeSize files are pending: when no I/O failed and at most
\* mergeSize chunks were spilled, no temporary file besides those of the
\* chunks is ever created, the files being merged to standard output
\* directly.
C20_NoRoundWithinBound ==
    (faults = 0 /\ Len(sent) <= mergeSize) => made <= Len(sent)

\* C21: a merge to standard output in which no I/O fails and whose
\* sources all exist, one of them being an empty file, reports no error:
\* the empty file is removed and the other sources are merged to their
\* end.
C21_EmptySourceSkipped ==
    [][(/\ MsFinal /\ faults' = faults
        /\ \A i \in 1..Len(ms.tmps) : Exists(fs, ms.tmps[i])
        /\ \E i \in 1..Len(ms.tmps) : fs[ms.tmps[i]] = <<>>)
          => (/\ ms'.pc = "out"
              /\ \A i \in 1..Len(ms.tmps) : ~Exists(fs', ms.tmps[i]))]_vars

\* C22: a merge during which a source could not be read (the goroutine of
\* readerLines counted the error) ends with an error that mergeSort
\* returns.
C22_ReadErrorAborts ==
    [][((Sort1Final \/ Sort1Round) /\ nerrors' > nerrors)
          => ms'.err = "merge"]_vars

\* C23: when writeChunk has returned a name, which mergeSort appended to
\* tmps, the file of that name holds every line of the chunk.
C23_NameOnlyWhenWritten ==
    (ms.pc = "range" /\ Len(ms.tmps) > 0)
        => /\ Exists(fs, ms.tmps[Len(ms.tmps)])
           /\ fs[ms.tmps[Len(ms.tmps)]] = Ser(Strs(ms.c))

\* mergeSort has reported an error to main.
FatalReported == \E i \in 1..Len(stderr) : stderr[i] = "mergeSort"

\* C24: once mergeSort has reported an error, no temporary file is
\* created any more.
C24_NoTempAfterFatal == [][FatalReported => made' = made]_vars

\* A run went on to its last merge and its end after the error of a merge
\* round was reported.
C24_Witness ==
    /\ FatalReported /\ ms.pc = "done"
    /\ Len(ms.tmps) > mergeSize
    /\ Len(removes) > 0

\* C25: the complete lines of every temporary file on disk, written by
\* writeChunk or by a merge round, are non-decreasing under line.less.
C25_TempFilesSorted ==
    \A f \in DOMAIN fs : NonDecreasing(SplitLines(fs[f]))

\* The strings that the calls of ReadLine in readLines return for the
\* bytes s of a file: a line that does not fit the buffer comes in
\* pieces, all of which readLines sends on.
RECURSIVE FragsOf(_)
FragsOf(s) ==
    IF s = <<>> THEN <<>>
    ELSE <<ReadLine(s, defaultBufSize).b>>
             \o FragsOf(ReadLine(s, defaultBufSize).rest)

\* The strings that readLines sends for the physical lines ls.
RECURSIVE Arriving(_)
Arriving(ls) ==
    IF ls = <<>> THEN <<>>
    ELSE FragsOf(ls[1] \o <<NL>>) \o Arriving(Tail(ls))

\* The lines of c are the arriving lines number from + 1 up to to.
IsBlock(c, from, to) ==
    /\ to <= Len(Arriving(input))
    /\ SameLines(Strs(c), SubSeq(Arriving(input), from + 1, to))

\* C26: a chunk never holds more than chunkSize lines; every chunk handed
\* over holds chunkSize lines, except the last, which holds at least one;
\* and the k-th chunk consists of the k-th block of consecutive lines in
\* their order of arrival, both while chunks builds it and when
\* mergeSort has received it.
C26_ChunksAreBlocks ==
    /\ Len(ck.c) <= chunkSize
    /\ \A i \in 1..Len(sent) :
          /\ sent[i] >= 1 /\ sent[i] <= chunkSize
          /\ i < Len(sent) => sent[i] = chunkSize
    /\ ck.pc = "send" => Len(ck.c) = chunkSize
    /\ ck.pc = "sendlast" => Len(ck.c) >= 1
    /\ ck.pc \in {"recv", "send", "sendlast"}
          => IsBlock(ck.c, SumSeq(sent), SumSeq(sent) + Len(ck.c))
    /\ ms.pc = "chunk"
          => IsBlock(ms.c, SumSeq(sent) - Len(ms.c), SumSeq(sent))

\* Two full chunks were handed over and the third, of one line, waits to
\* be, after an overlong line came in pieces.
C26_Witness ==
    /\ Len(sent) = 2 /\ ck.pc = "sendlast" /\ Len(ck.c) = 1
    /\ ~NoOverlong

\* The strings that readerLines sends for the physical lines ls: of a
\* line that does not fit the buffer, the first piece only.
Arriving1(ls) ==
    [i \in 1..Len(ls) |-> ReadLine(ls[i] \o <<NL>>, defaultBufSize).b]

\* The same for sortChunks of the first program of sort/main.go, whose
\* chunk is ms.chunk and which holds the line that found the chunk full
\* in ms.line while the chunk is written.
T26_Sort1ChunksAreBlocks ==
    /\ Len(ms.chunk) <= chunkSize
    /\ \A i \in 1..Len(sent) :
          /\ sent[i] >= 1 /\ sent[i] <= chunkSize
          /\ i < Len(sent) => sent[i] = chunkSize
    /\ ms.pc = "spill" => Len(ms.chunk) = chunkSize
    /\ ms.pc \in {"lines", "spill"}
          => /\ SumSeq(sent) + Len(ms.chunk) <= Len(input)
             /\ SameLines(ms.chunk,
                          SubSeq(Arriving1(input), SumSeq(sent) + 1,
                                 SumSeq(sent) + Len(ms.chunk)))
    /\ ms.pc = "spill"
          => ms.line = Arriving1(input)[SumSeq(sent) + chunkSize + 1]

C28_NoSendAfterClose ==
    errsClosed => rd.pc \notin {"errs_open", "errs_trunc", "errs_read"}

(***************************************************************************)
(* Liveness of part_003.  The scheduler lets every goroutine that can     *)
(* take a step take one eventually: weak fairness for the steps of the     *)
(* reader, of chunks, of mergeSort and of main, a send and its receive     *)
(* being a step of both.  For the merges of mergeSort the condition        *)
(* WF_vars(MsMerge) is written out with the guard MergeCan in the place    *)
(* of ENABLED <<MsMerge>>_vars: a merge with no fault injected is always   *)
(* possible where the guard holds.                                         *)
(***************************************************************************)
RdStep == RdOpen \/ RdReadLine \/ RdSendErr \/ RdPanic \/ RdClose

CkStep == CkRecv \/ CkLast \/ CkSend \/ CkClose

\* The steps of mergeSort but its merges.
MsStep ==
    \/ CkSend \/ MsDirect \/ MsWriteChunk \/ MsRangeEnd \/ MsLoopEnd
    \/ MsSendErr \/ MsOut \/ MsReturn

MsMerge == MsRound \/ MsFinal

\* mergeSort stands before a merge round or the last merge.
MergeCan ==
    /\ Running
    /\ \/ ms.pc = "loop" /\ Len(ms.tmps) > mergeSize
       \/ ms.pc = "final"

LiveSpec ==
    /\ Spec
    /\ WF_vars(RdStep) /\ WF_vars(CkStep) /\ WF_vars(MsStep)
    /\ ([]<>(~MergeCan) \/ []<><<MsMerge>>_vars)
    /\ WF_vars(MainExit)

\* C29: under fair scheduling errs is eventually closed and main
\* eventually exits.
C29_MainExits == <>(errsClosed /\ exit = "exited")

\* The process always ends, by main's os.Exit or by a panic: no goroutine
\* waits for ever.
T29_ProcessEnds == <>(errsClosed /\ exit # "running")

(***************************************************************************)
(* Memory of the chunk phase of part_003.  The chunks that exist are the   *)
(* slice of the chunks goroutine, ck.c, which it fills or waits to hand    *)
(* off, and the slice mergeSort received last, ms.c; a line is in transit  *)
(* when readLines waits in its send on lines.                              *)
(***************************************************************************)
InTransit == IF rd.pc = "sendline" THEN 1 ELSE 0

\* C30: the two chunks hold at most chunkSize lines each, so at most
\* 2 * chunkSize lines are buffered besides the line in transit; chunks
\* waiting to hand off chunk k+1 holds exactly that full chunk and has
\* started no other, and the chunk in mergeSort's hands is the one sent
\* last.
C30_TwoChunksBuffered ==
    /\ Len(ck.c) <= chunkSize /\ Len(ms.c) <= chunkSize
    /\ Len(ck.c) + Len(ms.c) + InTransit <= 2 * chunkSize + 1
    /\ ck.pc = "send" => Len(ck.c) = chunkSize
    /\ ck.pc \in {"close", "done"} => ck.c = <<>>
    /\ Len(ms.c) = (IF sent = <<>> THEN 0 ELSE sent[Len(sent)])

\* The bound is attained: mergeSort spills a full chunk, chunks waits to
\* hand off the next full chunk, and readLines waits with one more line.
C30_Witness ==
    /\ ms.pc = "chunk" /\ Len(ms.c) = chunkSize
    /\ ck.pc = "send" /\ Len(ck.c) = chunkSize
    /\ rd.pc = "sendline"

====
